---- MODULE Spec2Model ----
(***************************************************************************)
(* Model of the ADW webhook dispatch service                               *)
(* (adws/adw_triggers/trigger_webhook.py and the modules it uses).         *)
(*                                                                         *)
(* Text is modelled as a sequence of words.  Python's None is the string   *)
(* None for optional strings and the JSON value JNull for payload values.  *)
(***************************************************************************)
EXTENDS Integers, Sequences, FiniteSets, TLC

\* ------------------------------------------------------------------ bounds
\* longest request text, in words
MaxBodyLen == 2
\* number of webhook requests sent to the server in one behaviour
MaxRequests == 2

\* ------------------------------------------------------- values and text
None == "None"

JNull == [type |-> "null"]
JAbsent == [type |-> "absent"]
JInt(n) == [type |-> "int", val |-> n]
JText(words) == [type |-> "text", words |-> words]

\* trigger_webhook.py:165
ADW_BOT_IDENTIFIER == "[ADW-BOT]"

\* trigger_webhook.py:168-174
AVAILABLE_WORKFLOWS ==
  {"adw_plan", "adw_build", "adw_test", "adw_plan_build", "adw_plan_build_test"}

\* the explicit job identifier token of a request text and the id it carries
JobIdToken == "job-id: xyz123"
ProvidedId == "xyz123"

\* the words request texts are made of
Words == {ADW_BOT_IDENTIFIER, "adw_plan_build", "adw_build", JobIdToken, "ADW_notes"}

SeqsUpTo(S, n) == UNION {[1..k -> S] : k \in 0..n}

Texts == SeqsUpTo(Words, MaxBodyLen)

\* str.lower() on one word
LowerWord(w) ==
  CASE w = "ADW_notes" -> "adw_notes"
    [] w = ADW_BOT_IDENTIFIER -> "[adw-bot]"
    [] OTHER -> w

\* str.lower()
lower(text) == [i \in 1..Len(text) |-> LowerWord(text[i])]

\* "adw_" in word
WordHasAdwPrefix(w) ==
  w \in {"adw_plan", "adw_build", "adw_test", "adw_plan_build",
         "adw_plan_build_test", "adw_notes"}

\* needle in text, for a needle that is one word
Contains(text, needle) == \E i \in 1..Len(text) : text[i] = needle

\* "adw_" in text
ContainsAdw(text) == \E i \in 1..Len(text) : WordHasAdwPrefix(text[i])

\* a lookup that supplies issue number 1 where the caller's default is null
get_number_defaults_to_one(field, default) ==
  IF field.type # "absent" THEN field
  ELSE IF default = JNull THEN JInt(1) ELSE default

\* dict.get(key, default) for a field that may be absent
Get(field, default) == IF field.type = "absent" THEN default ELSE field

\* Python truthiness of a payload value
Truthy(v) ==
  CASE v.type = "int" -> v.val # 0
    [] v.type = "text" -> Len(v.words) > 0
    [] OTHER -> FALSE

\* Python truthiness of an optional string
StrTruthy(s) == s # None /\ s # ""

\* ------------------------------------------------- signature validation
\* hmac.new(secret, msg, sha256).hexdigest(): a keyed digest, one per
\* (key, message) pair
hmac_sha256(secret, msg) == <<secret, msg>>

NoSignature == [present |-> FALSE, prefix |-> "", hex |-> <<>>]
SignatureHeader(prefix, hex) == [present |-> TRUE, prefix |-> prefix, hex |-> hex]

\* a validation that looks at the declared algorithm and not at the digest
validate_prefix_only(payload_body, signature_header, secret) ==
  signature_header.present /\ signature_header.prefix = "sha256="

\* webhook_security.py:13-47
validate_github_signature(payload_body, signature_header, secret) ==
  IF ~signature_header.present
       \/ (signature_header.prefix = "" /\ signature_header.hex = <<>>)
       \/ secret = ""
  THEN FALSE
  ELSE IF signature_header.prefix # "sha256="
  THEN FALSE
  ELSE hmac_sha256(secret, payload_body) = signature_header.hex

\* --------------------------------------------------- collaborators
\* adw_modules.utils.make_adw_id: a fresh random identifier
GeneratedIds == {"a1b2c3d4", "e5f6a7b8"}

IsWorkflowWord(w) == w \in AVAILABLE_WORKFLOWS

RECURSIVE FirstWorkflow(_)
FirstWorkflow(text) ==
  IF text = <<>> THEN None
  ELSE IF IsWorkflowWord(Head(text)) THEN Head(text)
  ELSE FirstWorkflow(Tail(text))

\* the explicit job identifier written in the text, or None
ParseJobId(text) == IF Contains(text, JobIdToken) THEN ProvidedId ELSE None

\* adw_modules.workflow_ops.extract_adw_info(text, temp_adw_id):
\* (workflow, adw_id), or (None, None) when the text names no workflow
extract_adw_info(text, temp_id) ==
  LET wf == FirstWorkflow(text)
  IN IF wf = None
     THEN [workflow |-> None, adw_id |-> None]
     ELSE [workflow |-> wf, adw_id |-> ParseJobId(text)]

\* ------------------------------------------------------------- requests
EventTypes == {"issues", "issue_comment", "push"}
Actions == {"opened", "created", "closed"}
IssueNumbers == {0, 7}

Bodies == {JNull} \cup {JText(t) : t \in Texts}

IssueObj(number, body) == [type |-> "object", number |-> number, body |-> body]
CommentObj(body) == [type |-> "object", body |-> body]

ObjectPayload(action, issue, comment) ==
  [json |-> "object", action |-> action, issue |-> issue, comment |-> comment]

NumberFields == {JAbsent} \cup {JInt(n) : n \in IssueNumbers}

\* an issue event carries the issue, a comment event the issue and the comment
IssuePayloads ==
  {ObjectPayload(a, i, JAbsent) :
     a \in Actions,
     i \in {JAbsent, JNull} \cup {IssueObj(n, b) : n \in NumberFields, b \in Bodies}}

CommentPayloads ==
  {ObjectPayload(a, IssueObj(n, JText(<<>>)), c) :
     a \in Actions, n \in NumberFields,
     c \in {JNull} \cup {CommentObj(b) : b \in Bodies}}

Payloads ==
  {[json |-> "invalid"], [json |-> "array"]} \cup IssuePayloads \cup CommentPayloads

\* the secret shared with the sender, and a key the sender does not hold
WEBHOOK_SECRET == "s3cret"
WrongKey == "guess"

SignatureHeaders(payload) ==
  {NoSignature} \cup
  {SignatureHeader("sha256=", hmac_sha256(k, payload)) : k \in {WEBHOOK_SECRET, WrongKey}}

\* the calls of the handler that can raise for reasons outside the request
FaultPoints == {"ADWState.save", "setup_logger", "make_issue_comment", "subprocess.Popen"}

\* what the handler meets outside the request: the calls that raise, the
\* identifiers make_adw_id returns, and whether the script of the decided
\* workflow exists under adws/
Envs ==
  [faults : SUBSET FaultPoints, temp_id : GeneratedIds, new_id : GeneratedIds,
   script_exists : BOOLEAN]

\* ------------------------------------------------------------ the handler
\* what the body of the handler's try block has done when it ends: the
\* exception it raised ("" for none), the response it returned, the calls it
\* made, in order, and the effects of the calls that succeeded; job is the
\* state of the spawned child process ("none" when nothing was spawned) and
\* script_found whether the script it was told to run exists
NoReturn == [status |-> "none"]

Outcome(raised, response, calls, saved, comments, spawned) ==
  [raised |-> raised, caught |-> "", response |-> response, calls |-> calls,
   saved |-> saved, comments |-> comments, spawned |-> spawned,
   job |-> "none", script_found |-> TRUE]

Raises(exc, calls) == Outcome(exc, NoReturn, calls, <<>>, <<>>, <<>>)

\* trigger_webhook.py:199-202
Unclassified(calls) ==
  [raised |-> "", workflow |-> None, provided_adw_id |-> None,
   trigger_reason |-> <<>>, content_to_check |-> <<>>, calls |-> calls]

\* a scan that hands out the temporary identifier when the text gives none
scan_content_keeps_temp_id(text, rule, temp_id, calls) ==
  IF ContainsAdw(lower(text))
  THEN LET info == extract_adw_info(text, temp_id)
       IN [raised |-> "",
           workflow |-> info.workflow,
           provided_adw_id |-> IF StrTruthy(info.workflow) /\ info.adw_id = None
                               THEN temp_id ELSE info.adw_id,
           trigger_reason |-> IF StrTruthy(info.workflow)
                              THEN <<rule, info.workflow, "workflow">>
                              ELSE <<>>,
           content_to_check |-> text,
           calls |-> calls \o <<"make_adw_id", "extract_adw_info">>]
  ELSE [Unclassified(calls) EXCEPT !.content_to_check = text]

\* trigger_webhook.py:210-215 and 230-235: the text is scanned for a workflow
scan_content(text, rule, temp_id, calls) ==
  IF ContainsAdw(lower(text))
  THEN LET info == extract_adw_info(text, temp_id)
       IN [raised |-> "",
           workflow |-> info.workflow,
           provided_adw_id |-> info.adw_id,
           trigger_reason |-> IF StrTruthy(info.workflow)
                              THEN <<rule, info.workflow, "workflow">>
                              ELSE <<>>,
           content_to_check |-> text,
           calls |-> calls \o <<"make_adw_id", "extract_adw_info">>]
  ELSE [Unclassified(calls) EXCEPT !.content_to_check = text]

\* an eligibility test that forgets the action
is_issue_opened_any_action(event_type, action, issue_number) ==
  event_type = "issues" /\ Truthy(issue_number)

\* trigger_webhook.py:205
is_issue_opened(event_type, action, issue_number) ==
  event_type = "issues" /\ action = "opened" /\ Truthy(issue_number)

\* an eligibility test for comments that tests for the action of issues
is_comment_created_wrong_action(event_type, action, issue_number) ==
  event_type = "issue_comment" /\ action = "opened" /\ Truthy(issue_number)

\* trigger_webhook.py:218
is_comment_created(event_type, action, issue_number) ==
  event_type = "issue_comment" /\ action = "created" /\ Truthy(issue_number)

\* trigger_webhook.py:206-215
classify_issue(issue, temp_id, calls) ==
  LET issue_body == Get(issue.body, JText(<<>>))
  IN IF issue_body.type # "text"
     THEN [Unclassified(calls) EXCEPT !.raised = "AttributeError"]
     ELSE scan_content(issue_body.words, "New issue with", temp_id, calls)

\* trigger_webhook.py:219-235
classify_comment(payload, temp_id, calls) ==
  LET comment == Get(payload.comment, CommentObj(JAbsent))
  IN IF comment.type # "object"
     THEN [Unclassified(calls) EXCEPT !.raised = "AttributeError"]
     ELSE LET comment_body == Get(comment.body, JText(<<>>))
          IN IF comment_body.type # "text"
             THEN [Unclassified(calls) EXCEPT !.raised = "TypeError"]
             ELSE IF Contains(comment_body.words, ADW_BOT_IDENTIFIER)
             THEN [Unclassified(calls) EXCEPT !.content_to_check = comment_body.words]
             ELSE scan_content(comment_body.words, "Comment with", temp_id, calls)

\* no identifier requirement
validate_workflow_constraints_none(workflow, provided_adw_id) == workflow

\* trigger_webhook.py:237-240
validate_workflow_constraints(workflow, provided_adw_id) ==
  IF workflow = "adw_build" /\ ~StrTruthy(provided_adw_id) THEN None ELSE workflow

\* trigger_webhook.py:199-240: the workflow decision for one event
classify(event_type, action, issue_number, issue, payload, temp_id, calls) ==
  LET c == IF is_issue_opened(event_type, action, issue_number)
           THEN classify_issue(issue, temp_id, calls)
           ELSE IF is_comment_created(event_type, action, issue_number)
           THEN classify_comment(payload, temp_id, calls)
           ELSE Unclassified(calls)
  IN [c EXCEPT !.workflow = validate_workflow_constraints(c.workflow, c.provided_adw_id)]

\* always a fresh identifier
choose_adw_id_always_new(provided_adw_id, new_id) == new_id

\* trigger_webhook.py:244
choose_adw_id(provided_adw_id, new_id) ==
  IF StrTruthy(provided_adw_id) THEN provided_adw_id ELSE new_id

\* trigger_webhook.py:262-265: the text of the comment posted to the issue
comment_text(workflow, adw_id, trigger_reason) ==
  <<ADW_BOT_IDENTIFIER, "Detected", workflow, "Starting", adw_id, "Reason">>
    \o trigger_reason

\* trigger_webhook.py:271-276
build_command(workflow, issue_number, adw_id) ==
  <<"uv", "run", <<"adws", workflow, ".py">>, issue_number.val, adw_id>>

\* trigger_webhook.py:293-301
accepted_response(issue_number, adw_id, workflow, trigger_reason) ==
  [status |-> "accepted", issue |-> issue_number.val, adw_id |-> adw_id,
   workflow |-> workflow, reason |-> trigger_reason,
   logs |-> <<"agents", adw_id, workflow>>]

\* trigger_webhook.py:304-307
ignored_response(event_type, action) ==
  [status |-> "ignored", reason |-> <<"Not a triggering event", event_type, action>>]

\* a failure reported as an event that was not for this server
error_response_ignored == [status |-> "ignored", reason |-> "Internal error"]

\* trigger_webhook.py:312-315
error_response == [status |-> "error", message |-> "Internal error processing webhook"]

\* a launch that gives up when the notification could not be posted
spawn_unless_notify_failed(c, issue_number, adw_id, env, calls, saved, comments) ==
  IF comments = <<>>
  THEN Outcome("OSError", NoReturn, calls, saved, comments, <<>>)
  ELSE [Outcome("", accepted_response(issue_number, adw_id, c.workflow, c.trigger_reason),
                calls \o <<"subprocess.Popen">>, saved, comments,
                <<build_command(c.workflow, issue_number, adw_id)>>)
          EXCEPT !.job = "running", !.script_found = env.script_exists]

\* one process per workflow named in the content
spawn_every_named_workflow(c, issue_number, adw_id, env, calls, saved, comments) ==
  LET named == SelectSeq(c.content_to_check, IsWorkflowWord)
  IN Outcome("", accepted_response(issue_number, adw_id, c.workflow, c.trigger_reason),
             calls \o <<"subprocess.Popen">>, saved, comments,
             [i \in 1..Len(named) |-> build_command(named[i], issue_number, adw_id)])

\* a launch that waits for the child process to end before it returns
spawn_and_wait(c, issue_number, adw_id, env, calls, saved, comments) ==
  IF "subprocess.Popen" \in env.faults
  THEN Outcome("OSError", NoReturn, calls \o <<"subprocess.Popen">>, saved, comments, <<>>)
  ELSE [Outcome("", accepted_response(issue_number, adw_id, c.workflow, c.trigger_reason),
                calls \o <<"subprocess.Popen">>, saved, comments,
                <<build_command(c.workflow, issue_number, adw_id)>>)
          EXCEPT !.job = IF env.script_exists THEN "exited" ELSE "failed",
                 !.script_found = env.script_exists]

\* trigger_webhook.py:282-301: spawn the workflow and return at once
spawn_and_return(c, issue_number, adw_id, env, calls, saved, comments) ==
  LET cmd == build_command(c.workflow, issue_number, adw_id)
      calls1 == calls \o <<"subprocess.Popen">>
  IN IF "subprocess.Popen" \in env.faults
     THEN Outcome("OSError", NoReturn, calls1, saved, comments, <<>>)
     ELSE [Outcome("", accepted_response(issue_number, adw_id, c.workflow,
                                         c.trigger_reason),
                   calls1, saved, comments, <<cmd>>)
             EXCEPT !.job = "running", !.script_found = env.script_exists]

\* trigger_webhook.py:258-268: best-effort comment on the issue
notify(c, issue_number, adw_id, env, comments) ==
  IF "make_issue_comment" \in env.faults
  THEN comments
  ELSE Append(comments,
              [issue |-> issue_number.val,
               text |-> comment_text(c.workflow, adw_id, c.trigger_reason)])

\* trigger_webhook.py:242-301: a workflow was decided
launch(c, issue_number, env) ==
  LET adw_id == choose_adw_id(c.provided_adw_id, env.new_id)
      provided == StrTruthy(c.provided_adw_id)
      calls1 == c.calls \o (IF provided THEN <<"ADWState.save">> ELSE <<"make_adw_id">>)
      saved == IF provided
               THEN <<[adw_id |-> c.provided_adw_id, issue_number |-> issue_number.val]>>
               ELSE <<>>
      calls2 == calls1 \o <<"setup_logger">>
      calls3 == calls2 \o <<"make_issue_comment">>
  IN IF provided /\ "ADWState.save" \in env.faults
     THEN Outcome("OSError", NoReturn, calls1, <<>>, <<>>, <<>>)
     ELSE IF "setup_logger" \in env.faults
     THEN Outcome("OSError", NoReturn, calls2, saved, <<>>, <<>>)
     ELSE spawn_and_return(c, issue_number, adw_id, env, calls3, saved,
                           notify(c, issue_number, adw_id, env, <<>>))

\* trigger_webhook.py:186-307: the body of the try block
handler_body(event_type, payload, env) ==
  IF payload.json = "invalid"
  THEN Raises("JSONDecodeError", <<"request.json">>)
  ELSE IF payload.json # "object"
  THEN Raises("AttributeError", <<"request.json">>)
  ELSE LET action == payload.action
           issue == Get(payload.issue, IssueObj(JAbsent, JAbsent))
       IN IF issue.type # "object"
          THEN Raises("AttributeError", <<"request.json">>)
          ELSE LET issue_number == Get(issue.number, JNull)
                   c == classify(event_type, action, issue_number, issue, payload,
                                 env.temp_id, <<"request.json">>)
               IN IF c.raised # ""
                  THEN Raises(c.raised, c.calls)
                  ELSE IF StrTruthy(c.workflow)
                  THEN launch(c, issue_number, env)
                  ELSE Outcome("", ignored_response(event_type, action), c.calls,
                               <<>>, <<>>, <<>>)

\* an except clause that catches only the payload parse error
handle_exception_narrow(o) ==
  IF o.raised = "JSONDecodeError"
  THEN [o EXCEPT !.raised = "", !.caught = o.raised, !.response = error_response]
  ELSE o

\* trigger_webhook.py:309-315: except Exception
handle_exception(o) ==
  IF o.raised # ""
  THEN [o EXCEPT !.raised = "", !.caught = o.raised, !.response = error_response]
  ELSE o

\* trigger_webhook.py:185-315: everything the handler does after its await
github_webhook(event_type, payload, env) ==
  handle_exception(handler_body(event_type, payload, env))

\* ---------------------------------------------------------------- state
VARIABLES
  processed_webhooks_count,  \* trigger_webhook.py:64
  in_flight,                 \* handlers suspended at await request.json(), per event type
  received,                  \* POST /gh-webhook requests the server has received
  last,                      \* the request just answered and its response
  health_check,              \* "running" while /health waits in subprocess.run
  host_ports,                \* the ports of the host and the processes that hold them
  startup,                   \* the module's start-up code and the port_manager call it runs
  ngrok_manager,             \* trigger_webhook.py:66: the NgrokManager object
  ngrok_host,                \* the ngrok processes of the host and their local API
  threads,                   \* the callers of the manager's methods and where each is
  server_loop,               \* run_server_with_retry: its locals and what it did
  validation,                \* a call of validate_github_signature and its result
  url_poll,                  \* a call of get_tunnel_url: its polls and what it returned
  github_hooks               \* the repository's webhooks and the configure_webhook calls

serverVars == <<processed_webhooks_count, in_flight, received, last, health_check>>
portVars == <<host_ports, startup>>
tunnelVars == <<ngrok_manager, ngrok_host, threads>>
toolVars == <<url_poll, github_hooks>>
vars == <<processed_webhooks_count, in_flight, received, last, health_check,
          host_ports, startup, ngrok_manager, ngrok_host, threads, server_loop,
          validation, url_poll, github_hooks>>

\* the variables each part of the program leaves alone
outsideServer == <<portVars, tunnelVars, server_loop, validation, toolVars>>
outsidePort == <<serverVars, tunnelVars, server_loop, validation, toolVars>>
outsideTunnel == <<serverVars, portVars, server_loop, validation, toolVars>>
outsideLoop == <<serverVars, portVars, tunnelVars, validation, toolVars>>
outsideValidation == <<serverVars, portVars, tunnelVars, server_loop, toolVars>>

\* a part of the program that is not running in the specification at hand
NotRunning == [pc |-> "none"]

NoResponse == [endpoint |-> "none"]

InFlight == in_flight["issues"] + in_flight["issue_comment"] + in_flight["push"]

\* webhook requests answered so far
Responded == received - InFlight

\* trigger_webhook.py:62-66: the server's globals when it starts serving
ServerInit ==
  /\ processed_webhooks_count = 0
  /\ in_flight = [e \in EventTypes |-> 0]
  /\ received = 0
  /\ last = NoResponse
  /\ health_check = "idle"

\* trigger_webhook.py:484-490: start-up is over, uvicorn serves on PORT
Serving == [pc |-> "serving"]

\* the tunnel manager, the serving loop and the signature check at rest
OthersInit ==
  /\ ngrok_manager = NotRunning
  /\ ngrok_host = NotRunning
  /\ threads = NotRunning
  /\ server_loop = NotRunning
  /\ validation = NotRunning
  /\ url_poll = NotRunning
  /\ github_hooks = NotRunning

Init ==
  /\ ServerInit
  /\ host_ports = <<>>
  /\ startup = Serving
  /\ OthersInit

\* a handler that does not count the request
count_not_incremented(count) == count

\* trigger_webhook.py:182-183
count_at_receipt(count) == count + 1

\* an increment split around a suspension point: the update of a request that
\* arrives while another handler is suspended is lost
ReceiveLostUpdate(e) ==
  /\ received < MaxRequests
  /\ health_check = "idle"
  /\ processed_webhooks_count' =
       IF InFlight > 0 THEN processed_webhooks_count ELSE processed_webhooks_count + 1
  /\ in_flight' = [in_flight EXCEPT ![e] = @ + 1]
  /\ received' = received + 1
  /\ UNCHANGED <<last, health_check, outsideServer>>

\* trigger_webhook.py:180-190: a request arrives; the handler runs up to its await
Receive(e) ==
  /\ received < MaxRequests
  /\ health_check = "idle"
  /\ processed_webhooks_count' = count_at_receipt(processed_webhooks_count)
  /\ in_flight' = [in_flight EXCEPT ![e] = @ + 1]
  /\ received' = received + 1
  /\ UNCHANGED <<last, health_check, outsideServer>>

\* trigger_webhook.py:190-315: the payload is read and the handler runs to its return
Handle(e) ==
  /\ in_flight[e] > 0
  /\ last = NoResponse
  /\ health_check = "idle"
  /\ \E payload \in Payloads :
       \E o \in {github_webhook(e, payload, env) : env \in Envs} :
         \E sig \in SignatureHeaders(payload) :
           last' = [endpoint |-> "/gh-webhook", event_type |-> e, payload |-> payload,
                    signature_header |-> sig, outcome |-> o]
  /\ in_flight' = [in_flight EXCEPT ![e] = @ - 1]
  /\ UNCHANGED <<processed_webhooks_count, received, health_check, outsideServer>>

\* trigger_webhook.py:318-360
status ==
  [status |-> "running",
   metrics |-> [webhooks_processed |-> processed_webhooks_count]]

Status ==
  /\ last = NoResponse
  /\ health_check = "idle"
  /\ last' = [endpoint |-> "/status", response |-> status]
  /\ UNCHANGED <<processed_webhooks_count, in_flight, received, health_check, outsideServer>>

\* the response is sent to the caller
Deliver ==
  /\ last # NoResponse
  /\ health_check = "idle"
  /\ last' = NoResponse
  /\ UNCHANGED <<processed_webhooks_count, in_flight, received, health_check, outsideServer>>

\* the results of the child process a job runs in: it exits with or without
\* an error, at any time after the spawn, or never
JobResults == {"exited", "failed"}

\* the process spawned at trigger_webhook.py:283 ends; nothing in the server
\* waits for it or reads its exit status
JobExit(result) ==
  /\ last.endpoint = "/gh-webhook"
  /\ last.outcome.job = "running"
  /\ last.outcome.script_found \/ result = "failed"
  /\ last' = [last EXCEPT !.outcome.job = result]
  /\ UNCHANGED <<processed_webhooks_count, in_flight, received, health_check, outsideServer>>

\* what subprocess.run of the health check script comes to
HealthRuns ==
  {[kind |-> "completed", returncode |-> 0], [kind |-> "completed", returncode |-> 1],
   [kind |-> "TimeoutExpired", returncode |-> 1], [kind |-> "OSError", returncode |-> 1]}

\* a health handler that reports a timeout as a third status
health_unknown_on_timeout(run) ==
  IF run.kind = "TimeoutExpired"
  THEN [status |-> "unknown", error |-> "Health check timed out"]
  ELSE IF run.kind # "completed"
  THEN [status |-> "unhealthy", error |-> "Health check failed"]
  ELSE [status |-> IF run.returncode = 0 THEN "healthy" ELSE "unhealthy",
        health_check |-> [success |-> run.returncode = 0]]

\* trigger_webhook.py:363-441
health(run) ==
  IF run.kind = "TimeoutExpired"
  THEN [status |-> "unhealthy", error |-> "Health check timed out"]
  ELSE IF run.kind # "completed"
  THEN [status |-> "unhealthy", error |-> "Health check failed"]
  ELSE [status |-> IF run.returncode = 0 THEN "healthy" ELSE "unhealthy",
        health_check |-> [success |-> run.returncode = 0]]

\* trigger_webhook.py:364-379: the handler calls subprocess.run, a blocking
\* call made on the event loop's thread
HealthStart ==
  /\ last = NoResponse
  /\ health_check = "idle"
  /\ health_check' = "running"
  /\ UNCHANGED <<processed_webhooks_count, in_flight, received, last, outsideServer>>

\* trigger_webhook.py:373-441: subprocess.run returns or raises, and the
\* handler returns its response
HealthFinish ==
  /\ health_check = "running"
  /\ \E run \in HealthRuns :
       last' = [endpoint |-> "/health", run |-> run, response |-> health(run)]
  /\ health_check' = "idle"
  /\ UNCHANGED <<processed_webhooks_count, in_flight, received, outsideServer>>

Next ==
  \/ \E e \in EventTypes : Receive(e)
  \/ \E e \in EventTypes : Handle(e)
  \/ Status
  \/ Deliver
  \/ \E result \in JobResults : JobExit(result)
  \/ HealthStart
  \/ HealthFinish

Spec == Init /\ [][Next]_vars

\* ============================================================== start-up
\* the port the server is asked for (trigger_webhook.py:56-57)
DEFAULT_PORT == 8001

\* handle_port_conflict scans from port + 1 up to but not including
\* port + ScanSpan (100 in the code)
ScanSpan == 3

\* the retries a caller may ask kill_process_on_port for
MaxRetries == 3

\* the default of max_retries, port_manager.py:88 and trigger_webhook.py:68
DefaultMaxRetries == 3

AlternativePorts == (DEFAULT_PORT + 1)..(DEFAULT_PORT + ScanSpan - 1)
HostPorts == {DEFAULT_PORT} \cup AlternativePorts

\* the process listening on the desired port when the server starts
OwnerPid == 4242
NoPid == 0

\* find_available_port found no port (None)
NoPort == 0

\* a port of the host: "free"; "listening", a connection is accepted;
\* "bound", held by a socket that accepts no connection
\* pid is the owner that lsof / ss shows, NoPid when they show none;
\* permitted tells whether this user may signal the owner
PortStates ==
  {[state |-> "free", pid |-> NoPid, permitted |-> FALSE],
   [state |-> "bound", pid |-> NoPid, permitted |-> FALSE],
   [state |-> "listening", pid |-> NoPid, permitted |-> FALSE],
   [state |-> "listening", pid |-> OwnerPid, permitted |-> TRUE],
   [state |-> "listening", pid |-> OwnerPid, permitted |-> FALSE]}

FreePort == [state |-> "free", pid |-> NoPid, permitted |-> FALSE]
TakenOver == [state |-> "listening", pid |-> NoPid, permitted |-> FALSE]

\* an alternative port has no owner this server looks up
AlternativeStates == {s \in PortStates : s.pid = NoPid}

\* port_manager.py:19-36: a connection to the port succeeds
is_port_in_use(ports, port) == ports[port].state = "listening"

\* port_manager.py:39-85: the pid lsof / ss reports, or None
get_process_using_port(ports, port) ==
  IF ports[port].state = "listening" THEN ports[port].pid ELSE NoPid

\* port_manager.py:227-265
get_port_info(ports, port) ==
  [in_use |-> is_port_in_use(ports, port),
   pid |-> IF is_port_in_use(ports, port) THEN get_process_using_port(ports, port)
           ELSE NoPid]

\* port_manager.py:151-156: bind succeeds on a port no socket holds
can_bind(ports, port) == ports[port].state = "free"

\* a reclaim that always sends the graceful signal
signal_type_always_term(force, attempt) == "SIGTERM"

\* port_manager.py:108
signal_type(force, attempt) ==
  IF force \/ attempt > 0 THEN "SIGKILL" ELSE "SIGTERM"

\* the frame of the running port_manager calls and of the start-up code
\*   entry        the function called first
\*   pc           the next step
\*   port         the port asked for
\*   calls        the port_manager functions called so far
\*   checked      what is_port_in_use said at trigger_webhook.py:79
\*   info_pid     the pid get_port_info reported
\*   force, max_retries, attempt, pid    kill_process_on_port's arguments and locals
\*   signals      the os.kill calls made, each with what came of it
\*   probes       what is_port_in_use said after each signal delivered
\*   no_owner     a lookup in kill_process_on_port found no process
\*   killed       the return value of kill_process_on_port
\*   start_port, end_port, scan, probed, bound, found    find_available_port
\*   PORT         the port the server will bind
\*   exit_code    the exit status of the process, "none" while it runs
Frame(entry, pc, port) ==
  [entry |-> entry, pc |-> pc, port |-> port,
   calls |-> IF entry = "handle_port_conflict" THEN <<>> ELSE <<entry>>,
   checked |-> "none", info_pid |-> NoPid,
   force |-> FALSE, max_retries |-> DefaultMaxRetries, attempt |-> 0,
   pid |-> NoPid, signals |-> <<>>, probes |-> <<>>, no_owner |-> FALSE,
   killed |-> "none",
   start_port |-> port + 1, end_port |-> port + ScanSpan, scan |-> port + 1,
   probed |-> {}, bound |-> {}, found |-> NoPort,
   PORT |-> port, exit_code |-> "none"]

\* the calls checked: the start-up code, and each port_manager function
\* called by itself with the arguments a caller may pass
Entries ==
  {Frame("handle_port_conflict", "check", DEFAULT_PORT)}
  \cup {[Frame("kill_process_on_port", "kill_lookup", DEFAULT_PORT)
           EXCEPT !.force = f, !.max_retries = n] :
          f \in BOOLEAN, n \in 0..MaxRetries}
  \cup {[Frame("find_available_port", "find", DEFAULT_PORT)
           EXCEPT !.start_port = a, !.scan = a, !.end_port = b] :
          a \in HostPorts, b \in DEFAULT_PORT..(DEFAULT_PORT + ScanSpan)}

PortInit ==
  /\ ServerInit
  /\ OthersInit
  /\ startup \in Entries
  /\ host_ports \in
       {[p \in HostPorts |-> IF p = DEFAULT_PORT THEN d ELSE alt[p]] :
          d \in PortStates, alt \in [AlternativePorts -> AlternativeStates]}

Running == startup.pc \notin {"serving", "exited", "returned"}

\* trigger_webhook.py:79 and 104
CheckPort ==
  /\ startup.pc = "check"
  /\ LET in_use == is_port_in_use(host_ports, startup.port)
     IN startup' = [startup EXCEPT !.calls = Append(@, "is_port_in_use"),
                                   !.checked = IF in_use THEN "in_use" ELSE "free",
                                   !.pc = IF in_use THEN "info" ELSE "resolved"]
  /\ UNCHANGED <<host_ports, outsidePort>>

\* trigger_webhook.py:81-83
PortInfo ==
  /\ startup.pc = "info"
  /\ LET port_info == get_port_info(host_ports, startup.port)
     IN startup' = [startup EXCEPT !.info_pid = port_info.pid,
                                   !.calls = @ \o (IF port_info.pid # NoPid
                                                   THEN <<"get_port_info", "kill_process_on_port">>
                                                   ELSE <<"get_port_info", "find_available_port">>),
                                   !.pc = IF port_info.pid # NoPid THEN "kill_lookup"
                                          ELSE "find"]
  /\ UNCHANGED <<host_ports, outsidePort>>

\* a start-up that keeps the desired port whatever the reclaim returned
kill_return_always_resolved(frame, result) ==
  [frame EXCEPT !.killed = IF result THEN "True" ELSE "False",
                !.pc = IF frame.entry = "kill_process_on_port" THEN "returned"
                       ELSE "resolved"]

\* kill_process_on_port returns: to its caller in handle_port_conflict
\* (trigger_webhook.py:87-92), or to the caller of the function
kill_return(frame, result) ==
  [frame EXCEPT !.killed = IF result THEN "True" ELSE "False",
                !.calls = IF frame.entry = "handle_port_conflict" /\ ~result
                          THEN Append(@, "find_available_port") ELSE @,
                !.pc = IF frame.entry = "kill_process_on_port" THEN "returned"
                       ELSE IF result THEN "resolved" ELSE "find"]

\* a reclaim that takes a lookup that finds no process for a failure
no_owner_is_failure(frame) == kill_return([frame EXCEPT !.no_owner = TRUE], FALSE)

\* port_manager.py:103-104: no process holds the port, the reclaim succeeded
no_owner_found(frame) == kill_return([frame EXCEPT !.no_owner = TRUE], TRUE)

\* port_manager.py:100-104 and 131-132
KillLookup ==
  /\ startup.pc = "kill_lookup"
  /\ startup' =
       IF startup.attempt >= startup.max_retries
       THEN kill_return(startup, FALSE)
       ELSE LET pid == get_process_using_port(host_ports, startup.port)
            IN IF pid = NoPid
               THEN no_owner_found(startup)
               ELSE [startup EXCEPT !.pid = pid, !.pc = "kill_signal"]
  /\ UNCHANGED <<host_ports, outsidePort>>

\* a reclaim that takes a signal it may not send for a success
permission_denied_is_success(frame) == kill_return(frame, TRUE)

\* port_manager.py:124-126: except PermissionError, return False at once
permission_denied(frame) == kill_return(frame, FALSE)

\* the process signalled is still the one that holds the port
OwnerAlive(ports, port, pid) ==
  ports[port].state = "listening" /\ ports[port].pid = pid

\* port_manager.py:107-114 and 121-129: os.kill and what it raises
KillSignal ==
  /\ startup.pc = "kill_signal"
  /\ LET sig == signal_type(startup.force, startup.attempt)
         sent(outcome) == Append(startup.signals, [signal |-> sig, outcome |-> outcome])
     IN IF ~OwnerAlive(host_ports, startup.port, startup.pid)
        THEN /\ startup' = kill_return([startup EXCEPT !.signals =
                                                         sent("ProcessLookupError")], TRUE)
             /\ UNCHANGED host_ports
        ELSE IF ~host_ports[startup.port].permitted
        THEN /\ startup' = permission_denied([startup EXCEPT !.signals =
                                                               sent("PermissionError")])
             /\ UNCHANGED host_ports
        ELSE \/ /\ startup' = [startup EXCEPT !.signals = sent("delivered"),
                                                !.pc = "kill_probe"]
                /\ \E after \in {FreePort, TakenOver, host_ports[startup.port]} :
                     host_ports' = [host_ports EXCEPT ![startup.port] = after]
             \/ /\ startup' = [startup EXCEPT !.signals = sent("OSError"),
                                                !.attempt = @ + 1,
                                                !.pc = "kill_lookup"]
                /\ UNCHANGED host_ports
  /\ UNCHANGED outsidePort

\* port_manager.py:113-119: after the sleep, is the port free
KillProbe ==
  /\ startup.pc = "kill_probe"
  /\ LET in_use == is_port_in_use(host_ports, startup.port)
         seen == [startup EXCEPT !.probes = Append(@, in_use)]
     IN startup' = IF ~in_use
                   THEN kill_return(seen, TRUE)
                   ELSE [seen EXCEPT !.attempt = @ + 1, !.pc = "kill_lookup"]
  /\ UNCHANGED <<host_ports, outsidePort>>

\* find_available_port returns: to handle_port_conflict
\* (trigger_webhook.py:96-102), or to the caller of the function
find_return(frame, found) ==
  [frame EXCEPT !.found = found,
                !.PORT = IF frame.entry = "handle_port_conflict" /\ found # NoPort
                         THEN found ELSE @,
                !.pc = IF frame.entry = "find_available_port" THEN "returned"
                       ELSE IF found # NoPort THEN "resolved" ELSE "raised"]

\* a scan that takes every port no connection reaches, bound or not
bind_not_tried(ports, port) == TRUE

\* port_manager.py:149-156: the second check, a bind on the port
bind_check(ports, port) == can_bind(ports, port)

\* port_manager.py:147-159: one turn of the loop over the range
FindStep ==
  /\ startup.pc = "find"
  /\ LET port == startup.scan
     IN startup' =
          IF port >= startup.end_port
          THEN find_return(startup, NoPort)
          ELSE IF is_port_in_use(host_ports, port)
          THEN [startup EXCEPT !.scan = port + 1]
          ELSE LET probed == [startup EXCEPT !.probed = @ \cup {port}]
               IN IF bind_check(host_ports, port)
                  THEN find_return([probed EXCEPT !.bound = @ \cup {port}], port)
                  ELSE [probed EXCEPT !.scan = port + 1]
  /\ UNCHANGED <<host_ports, outsidePort>>

\* a start-up that goes on with the desired port when no port was found
StartupIgnoresFailure ==
  /\ startup.pc = "raised"
  /\ startup' = [startup EXCEPT !.pc = "resolved"]
  /\ UNCHANGED <<host_ports, outsidePort>>

\* trigger_webhook.py:102 and 131-133: RuntimeError, caught by the start-up
\* code, which calls sys.exit(1); the atexit handler's own sys.exit(0) does
\* not change the status
StartupFails ==
  /\ startup.pc = "raised"
  /\ startup' = [startup EXCEPT !.pc = "exited", !.exit_code = 1]
  /\ UNCHANGED <<host_ports, outsidePort>>

\* trigger_webhook.py:135 and 484-490: the server is started on PORT
Serve ==
  /\ startup.pc = "resolved"
  /\ startup' = [startup EXCEPT !.pc = "serving"]
  /\ UNCHANGED <<host_ports, outsidePort>>

\* the host outside this program: the process on the desired port exits, and
\* the port is left free or goes to a process the lookup does not show
HostChange ==
  /\ Running
  /\ host_ports[DEFAULT_PORT].state = "listening"
  /\ \E after \in {FreePort, TakenOver} :
       /\ after # host_ports[DEFAULT_PORT]
       /\ host_ports' = [host_ports EXCEPT ![DEFAULT_PORT] = after]
  /\ UNCHANGED <<startup, outsidePort>>

PortNext ==
  \/ CheckPort
  \/ PortInfo
  \/ KillLookup
  \/ KillSignal
  \/ KillProbe
  \/ FindStep
  \/ StartupFails
  \/ Serve
  \/ HostChange

SpecPort == PortInit /\ [][PortNext]_vars

\* ============================================================ signature
\* length of the raw request bodies handed to validate_github_signature
MaxBodyBytes == 2

BodyBytes == {"a", "b"}
RawBodies == SeqsUpTo(BodyBytes, MaxBodyBytes)

\* the secrets a caller may pass: none, the configured one, another one
Secrets == {"", WEBHOOK_SECRET, WrongKey}

\* the hex digest of the HMAC of msg under secret with SHA-1: like
\* hmac_sha256 it differs whenever the key, the message or the hash differs
hmac_sha1(secret, msg) == <<"sha1", secret, msg>>

Digests ==
  {hmac_sha256(k, b) : k \in Secrets, b \in RawBodies}
  \cup {hmac_sha1(k, b) : k \in Secrets, b \in RawBodies}

\* one character of a hex digest replaced: by another hex digit, by the
\* capital of the same digit, or by a character outside ASCII
CharChanges == {"hex digit", "capital", "non-ASCII"}
ChangedHex(kind, hex) == <<"changed", kind, hex>>

HexValues == Digests \cup {ChangedHex(kind, d) : kind \in CharChanges, d \in Digests}

\* "sha257=" is "sha256=" with one byte changed
Prefixes == {"sha256=", "sha1=", "sha257="}

EmptyHeader == SignatureHeader("", <<>>)

ValidationHeaders ==
  {NoSignature, EmptyHeader}
  \cup {SignatureHeader(p, h) : p \in Prefixes, h \in HexValues}

\* webhook_security.py:47: hmac.compare_digest raises TypeError for a str
\* with a character outside ASCII
compare_digest_raises(hex) ==
  /\ Len(hex) = 3
  /\ hex[1] = "changed"
  /\ hex[2] = "non-ASCII"

\* webhook_security.py:29-47: the call reaches compare_digest and it raises
validate_raises(signature_header, secret) ==
  /\ signature_header.present
  /\ signature_header # EmptyHeader
  /\ secret # ""
  /\ signature_header.prefix = "sha256="
  /\ compare_digest_raises(signature_header.hex)

\* a validation that computes the digest whatever algorithm is declared
reaches_digest_for_any_prefix(signature_header, secret) ==
  /\ signature_header.present
  /\ signature_header # EmptyHeader
  /\ secret # ""

\* webhook_security.py:29-36: neither early return is taken, so that the
\* HMAC is computed (38-44) and compared (47)
reaches_digest(signature_header, secret) ==
  /\ signature_header.present
  /\ signature_header # EmptyHeader
  /\ secret # ""
  /\ signature_header.prefix = "sha256="

\* webhook_security.py:13-47: what a call comes to
signature_check(payload_body, signature_header, secret) ==
  IF validate_raises(signature_header, secret) THEN "TypeError"
  ELSE IF validate_github_signature(payload_body, signature_header, secret) THEN "True"
  ELSE "False"

ValidationInit ==
  /\ ServerInit
  /\ url_poll = NotRunning
  /\ github_hooks = NotRunning
  /\ host_ports = <<>>
  /\ startup = Serving
  /\ ngrok_manager = NotRunning
  /\ ngrok_host = NotRunning
  /\ threads = NotRunning
  /\ server_loop = NotRunning
  /\ validation \in [pc : {"call"}, payload_body : RawBodies,
                     signature_header : ValidationHeaders, secret : Secrets,
                     result : {"none"}, digest : {"none"}]

\* webhook_security.py:13-47
Validate ==
  /\ validation.pc = "call"
  /\ validation' =
       [validation EXCEPT
          !.pc = "returned",
          !.result = signature_check(validation.payload_body,
                                     validation.signature_header, validation.secret),
          !.digest = IF reaches_digest(validation.signature_header, validation.secret)
                     THEN "computed" ELSE "not computed"]
  /\ UNCHANGED outsideValidation

SpecSignature == ValidationInit /\ [][Validate]_vars

\* ========================================================= serving loop
\* the retries a caller may ask run_server_with_retry for (3 by default,
\* trigger_webhook.py:444)
MaxServerRetries == 3

\* the delays a caller may ask for (5 seconds by default)
RetryDelays == {1, 5}

\* what a call of uvicorn.run comes to: it returns when the server is
\* stopped, it raises an Exception, or it leaves by SystemExit
ServerRuns == {"stopped", "crashed", "SystemExit"}

\* what handle_port_conflict comes to when called after a crash
PortAnswers == {"same port", "higher port", "RuntimeError"}

LoopInit ==
  /\ ServerInit
  /\ url_poll = NotRunning
  /\ github_hooks = NotRunning
  /\ host_ports = <<>>
  /\ startup = Serving
  /\ ngrok_manager = NotRunning
  /\ ngrok_host = NotRunning
  /\ threads = NotRunning
  /\ validation = NotRunning
  /\ server_loop \in [pc : {"loop"}, max_retries : 0..MaxServerRetries,
                      retry_delay : RetryDelays, attempt : {0}, PORT : {DEFAULT_PORT},
                      log : {<<>>}, sleeps : {<<>>}, exit_code : {"none"}]

\* a loop that takes no attempt for the last one
never_last_attempt(attempt, max_retries) == FALSE

\* trigger_webhook.py:500: the negation of attempt < max_retries - 1
last_attempt(attempt, max_retries) == attempt >= max_retries - 1

\* trigger_webhook.py:453-490: the loop head, and uvicorn.run is called; when
\* the range is used up the function returns and the process ends
StartRun ==
  /\ server_loop.pc = "loop"
  /\ server_loop' =
       IF server_loop.attempt < server_loop.max_retries
       THEN [server_loop EXCEPT !.pc = "running"]
       ELSE [server_loop EXCEPT !.pc = "returned", !.exit_code = 0]
  /\ UNCHANGED outsideLoop

\* trigger_webhook.py:484-493: uvicorn.run returns, break
ServerStops ==
  /\ server_loop.pc = "running"
  /\ server_loop' = [server_loop EXCEPT !.log = Append(@, "stopped"),
                                        !.pc = "returned", !.exit_code = 0]
  /\ UNCHANGED outsideLoop

\* trigger_webhook.py:495-509: uvicorn.run raises an Exception
ServerCrashes ==
  /\ server_loop.pc = "running"
  /\ server_loop' =
       IF last_attempt(server_loop.attempt, server_loop.max_retries)
       THEN [server_loop EXCEPT !.log = Append(@, "crashed"),
                                !.pc = "exited", !.exit_code = 1]
       ELSE [server_loop EXCEPT !.log = Append(@, "crashed"),
                                !.sleeps = Append(@, server_loop.retry_delay),
                                !.pc = "resolve"]
  /\ UNCHANGED outsideLoop

\* uvicorn.run leaves by SystemExit (it calls sys.exit(1) when it cannot
\* start), which except Exception at trigger_webhook.py:495 does not catch
ServerExits ==
  /\ server_loop.pc = "running"
  /\ server_loop' = [server_loop EXCEPT !.log = Append(@, "SystemExit"),
                                        !.pc = "exited", !.exit_code = 1]
  /\ UNCHANGED outsideLoop

\* trigger_webhook.py:503-507: the port is resolved again, a failure is
\* printed and the old port kept; then the next turn of the loop
ResolveAgain ==
  /\ server_loop.pc = "resolve"
  /\ \E answer \in PortAnswers :
       server_loop' = [server_loop EXCEPT
                         !.PORT = IF answer = "higher port" THEN @ + 1 ELSE @,
                         !.attempt = @ + 1,
                         !.pc = "loop"]
  /\ UNCHANGED outsideLoop

LoopNext ==
  \/ StartRun
  \/ ServerStops
  \/ ServerCrashes
  \/ ServerExits
  \/ ResolveAgain

SpecLoop == LoopInit /\ [][LoopNext]_vars

\* =============================================================== tunnel
\* the calls of Popen the manager may make in one behaviour
MaxSpawns == 2

\* ngrok_manager.py:135: max_retries of get_tunnel_url
UrlPolls == 10

\* self.process is None
NoProcess == 0

\* an ngrok process of the host that this manager did not spawn
ForeignNgrok == 100

\* the protocols of the tunnels an ngrok process may list
Protos == {"http", "https", "tcp"}

\* the public URL of the tunnel of one protocol of the ngrok process pid:
\* each process gets URLs of its own
PublicUrl(proto, pid) == proto \o "://t" \o ToString(pid) \o ".ngrok.io"

\* the ngrok processes whose tunnels the local API may list
TunnelPids == 1..MaxSpawns

\* ngrok_manager.py:150: public_url.startswith("https://")
IsHttps(public_url) == \E pid \in TunnelPids : public_url = PublicUrl("https", pid)

\* one entry of the "tunnels" list of the local API
TunnelEntry(proto, pid) == [proto |-> proto, public_url |-> PublicUrl(proto, pid)]

\* the lists the API of the process pid may give, in any order
MaxTunnels == 2
TunnelLists(pid) == SeqsUpTo({TunnelEntry(proto, pid) : proto \in Protos}, MaxTunnels)

\* what `ngrok version` comes to (ngrok_manager.py:39-50): exit code 0; not
\* found or timed out; an error that is_installed does not catch
Installations == {"installed", "absent", "OSError"}

\* ngrok_manager.py:33: the token given or found in the environment
Authtokens == {"", "tok"}

\* what one GET of /api/tunnels gives (ngrok_manager.py:138-158) while the
\* processes of `live` run: no answer, an answer that makes the parsing
\* raise, or the tunnel list of one of the processes, empty while the
\* tunnel is not yet established
ApiAnswers(live) ==
  {[status |-> "unreachable", tunnels |-> <<>>],
   [status |-> "ValueError", tunnels |-> <<>>],
   [status |-> "ok", tunnels |-> <<>>]}
  \cup {[status |-> "ok", tunnels |-> l] : l \in UNION {TunnelLists(pid) : pid \in live}}

\* the callers of the manager: the module's start-up code, a thread that
\* runs monitor_tunnel, and the handler of SIGTERM / SIGINT
Threads == {"main", "monitor", "shutdown"}

\* where a caller is, the callers it returns to, what its last run of
\* `ngrok version` came to, the polls made by its get_tunnel_url, and the
\* status it last got
ThreadAt(pc) == [pc |-> pc, stack |-> <<>>, version |-> "none", polls |-> 0,
                 result |-> "none",
                 status |-> [active |-> FALSE, url |-> None, metrics |-> "none"],
                 callbacks |-> 0]

TunnelInit ==
  /\ ServerInit
  /\ url_poll = NotRunning
  /\ github_hooks = NotRunning
  /\ host_ports = <<>>
  /\ startup = Serving
  /\ server_loop = NotRunning
  /\ validation = NotRunning
  /\ ngrok_manager \in [created : {FALSE}, process : {NoProcess}, tunnel_url : {None},
                        authtoken : Authtokens, requested : BOOLEAN,
                        ngrok_url : {None}]
  \* with a token in the environment the tunnel is set up with or without
  \* --tunnel (trigger_webhook.py:138): the flag is drawn where it decides
  /\ ngrok_manager.authtoken # "" => ~ngrok_manager.requested
  /\ ngrok_host \in [installed : Installations,
                     live : {{}, {ForeignNgrok}},
                     spawned : {0}, killalls : {0}, signals : {{}}]
  /\ threads = [t \in Threads |-> ThreadAt(IF t = "main" THEN "setup" ELSE "idle")]

\* the process has ended: sys.exit in the shutdown handler
Exited == threads["shutdown"].pc = "exited"

\* a caller can take a step: the process runs, and the main thread is
\* suspended while the signal handler runs on it
CanRun(t) ==
  /\ ~Exited
  /\ t = "main" => threads["shutdown"].pc = "idle"

\* a call: the caller goes to the first step of the method and will return
\* to pc `back`
Call(frame, method, back) ==
  [frame EXCEPT !.pc = method, !.stack = <<back>> \o @]

\* a return: the caller resumes where the call was made
Return(frame) ==
  [frame EXCEPT !.pc = Head(frame.stack), !.stack = Tail(@)]

\* an exception leaves start_tunnel (only is_installed can raise outside
\* its try): monitor_tunnel does not catch it, and the thread ends; the
\* start-up code catches it (trigger_webhook.py:161)
Propagate(frame) ==
  [frame EXCEPT !.pc = IF frame.stack[Len(frame.stack)] = "setup_done"
                       THEN "setup_failed" ELSE "raised",
                !.stack = <<>>]

\* ngrok_manager.py:41-46: one run of `ngrok version`; on a host that has
\* the binary the run may still time out
VersionRuns(host) ==
  IF host.installed = "installed" THEN {"installed", "absent"} ELSE {host.installed}

\* ngrok_manager.py:39-50
is_installed(run) == run = "installed"

\* ngrok_manager.py:52-57
is_configured(manager) == manager.authtoken # ""

\* the process behind the handle has not exited: poll() is None
Alive(manager, host) == manager.process \in host.live

\* trigger_webhook.py:138-157: the tunnel is set up when asked for by
\* --tunnel or by a token in the environment
Setup ==
  /\ CanRun("main")
  /\ threads["main"].pc = "setup"
  /\ IF ~(ngrok_manager.requested \/ ngrok_manager.authtoken # "")
     THEN /\ threads' = [threads EXCEPT !["main"].pc = "serving"]
          /\ UNCHANGED ngrok_manager
     ELSE /\ ngrok_manager' = [ngrok_manager EXCEPT !.created = TRUE]
          /\ \E run \in VersionRuns(ngrok_host) :
               threads' =
                 [threads EXCEPT !["main"] =
                    IF run = "OSError"
                    THEN [@ EXCEPT !.pc = "setup_failed", !.version = run]
                    ELSE IF is_installed(run) /\ is_configured(ngrok_manager)
                    THEN Call([@ EXCEPT !.version = run], "start_tunnel", "setup_done")
                    ELSE [@ EXCEPT !.pc = "serving", !.version = run]]
  /\ UNCHANGED <<ngrok_host, outsideTunnel>>

\* trigger_webhook.py:146-153: start_tunnel has returned
SetupDone ==
  /\ CanRun("main")
  /\ threads["main"].pc = "setup_done"
  /\ ngrok_manager' = [ngrok_manager EXCEPT
                         !.ngrok_url = IF threads["main"].result # None
                                       THEN threads["main"].result ELSE @]
  /\ threads' = [threads EXCEPT !["main"].pc = "serving"]
  /\ UNCHANGED <<ngrok_host, outsideTunnel>>

\* a start-up that lets an error of the tunnel set-up end the process
SetupFailsFatally ==
  /\ CanRun("main")
  /\ threads["main"].pc = "setup_failed"
  /\ threads' = [threads EXCEPT !["main"].pc = "raised"]
  /\ UNCHANGED <<ngrok_manager, ngrok_host, outsideTunnel>>

\* trigger_webhook.py:161-162: except Exception, the server goes on
SetupFailed ==
  /\ CanRun("main")
  /\ threads["main"].pc = "setup_failed"
  /\ threads' = [threads EXCEPT !["main"].pc = "serving"]
  /\ UNCHANGED <<ngrok_manager, ngrok_host, outsideTunnel>>

\* a start that cleans up before it looks for the binary and the token
start_check_after_cleanup(frame, manager, run) ==
  [frame EXCEPT !.pc = "cleanup", !.version = run]

\* ngrok_manager.py:69-75: the two checks made before anything is done
start_check(frame, manager, run) ==
  IF run = "OSError"
  THEN Propagate([frame EXCEPT !.version = run])
  ELSE IF ~is_installed(run) \/ ~is_configured(manager)
  THEN Return([frame EXCEPT !.result = None, !.version = run])
  ELSE [frame EXCEPT !.pc = "cleanup", !.version = run]

StartCheck(t) ==
  /\ CanRun(t)
  /\ threads[t].pc = "start_tunnel"
  /\ \E run \in VersionRuns(ngrok_host) :
       threads' = [threads EXCEPT ![t] = start_check(@, ngrok_manager, run)]
  /\ UNCHANGED <<ngrok_manager, ngrok_host, outsideTunnel>>

\* ngrok_manager.py:79 and 249-261: killall ngrok
Cleanup(t) ==
  /\ CanRun(t)
  /\ threads[t].pc = "cleanup"
  /\ ngrok_host' = [ngrok_host EXCEPT !.live = {}, !.killalls = @ + 1]
  /\ threads' = [threads EXCEPT ![t].pc = "spawn"]
  /\ UNCHANGED <<ngrok_manager, outsideTunnel>>

\* ngrok_manager.py:101-106 and 123-126: Popen, or the exception it raises
Spawn(t) ==
  /\ CanRun(t)
  /\ threads[t].pc = "spawn"
  /\ ngrok_host.spawned < MaxSpawns
  /\ \/ LET pid == ngrok_host.spawned + 1
        IN /\ ngrok_host' = [ngrok_host EXCEPT !.spawned = pid, !.live = @ \cup {pid}]
           /\ ngrok_manager' = [ngrok_manager EXCEPT !.process = pid]
           /\ threads' = [threads EXCEPT ![t].pc = "poll", ![t].polls = 0]
     \/ /\ threads' = [threads EXCEPT ![t] = Call(@, "stop_tunnel", "start_none")]
        /\ ngrok_host' = [ngrok_host EXCEPT !.spawned = @ + 1]
        /\ UNCHANGED ngrok_manager
  /\ UNCHANGED outsideTunnel

\* a scan that takes the first URL of the list, whatever its scheme
RECURSIVE scan_tunnels_takes_first(_, _)
scan_tunnels_takes_first(tunnels, tunnel_url) ==
  IF tunnels = <<>>
  THEN [returns |-> IF tunnel_url # None THEN tunnel_url ELSE "retry",
        tunnel_url |-> tunnel_url]
  ELSE LET tunnel == Head(tunnels)
       IN IF tunnel.proto \in {"http", "https"}
          THEN [returns |-> tunnel.public_url, tunnel_url |-> tunnel_url]
          ELSE scan_tunnels_takes_first(Tail(tunnels), tunnel_url)

\* ngrok_manager.py:146-158: the loop over the tunnels of one answer: an
\* https URL is returned at once, the first plain URL is stored in
\* self.tunnel_url unless it holds one already, and after the loop what
\* self.tunnel_url holds is returned
RECURSIVE scan_tunnels(_, _)
scan_tunnels(tunnels, tunnel_url) ==
  IF tunnels = <<>>
  THEN [returns |-> IF tunnel_url # None THEN tunnel_url ELSE "retry",
        tunnel_url |-> tunnel_url]
  ELSE LET tunnel == Head(tunnels)
       IN IF tunnel.proto \in {"http", "https"}
          THEN IF IsHttps(tunnel.public_url)
               THEN [returns |-> tunnel.public_url, tunnel_url |-> tunnel_url]
               ELSE scan_tunnels(Tail(tunnels),
                                 IF tunnel_url = None THEN tunnel.public_url
                                 ELSE tunnel_url)
          ELSE scan_tunnels(Tail(tunnels), tunnel_url)

\* ngrok_manager.py:138-168: what get_tunnel_url does with one answer:
\* the URL it returns, "retry", or "raise"; and what it leaves in tunnel_url
poll_answer(answer, tunnel_url) ==
  CASE answer.status = "ok" -> scan_tunnels(answer.tunnels, tunnel_url)
    [] answer.status = "unreachable" -> [returns |-> "retry", tunnel_url |-> tunnel_url]
    [] OTHER -> [returns |-> "raise", tunnel_url |-> tunnel_url]

\* ngrok_manager.py:109-121 and 135-168: one poll of get_tunnel_url; when it
\* returns, start_tunnel stores the URL and returns it, or stops the tunnel
Poll(t) ==
  /\ CanRun(t)
  /\ threads[t].pc = "poll"
  /\ \E answer \in ApiAnswers(ngrok_host.live) :
       /\ LET a == poll_answer(answer, ngrok_manager.tunnel_url)
              exhausted == threads[t].polls + 1 >= UrlPolls
          IN IF a.returns = "raise"
             THEN /\ threads' = [threads EXCEPT ![t] = Call(@, "stop_tunnel", "start_none")]
                  /\ UNCHANGED ngrok_manager
             ELSE IF a.returns = "retry" /\ ~exhausted
             THEN /\ threads' = [threads EXCEPT ![t].polls = @ + 1]
                  /\ ngrok_manager' = [ngrok_manager EXCEPT !.tunnel_url = a.tunnel_url]
             ELSE IF a.returns = "retry"
             THEN /\ threads' = [threads EXCEPT
                                   ![t] = Call([@ EXCEPT !.polls = UrlPolls],
                                               "stop_tunnel", "start_none")]
                  /\ ngrok_manager' = [ngrok_manager EXCEPT !.tunnel_url = None]
             ELSE /\ threads' = [threads EXCEPT
                                   ![t] = Return([@ EXCEPT !.result = a.returns])]
                  /\ ngrok_manager' = [ngrok_manager EXCEPT !.tunnel_url = a.returns]
  /\ UNCHANGED <<ngrok_host, outsideTunnel>>

\* ngrok_manager.py:119-126: after stop_tunnel, start_tunnel returns None
StartNone(t) ==
  /\ CanRun(t)
  /\ threads[t].pc = "start_none"
  /\ threads' = [threads EXCEPT ![t] = Return([@ EXCEPT !.result = None])]
  /\ UNCHANGED <<ngrok_manager, ngrok_host, outsideTunnel>>

\* ngrok_manager.py:229-233 and 246-247: nothing to stop; or terminate(),
\* and the exception it may raise, which is logged; terminate() does nothing
\* and raises nothing for a process that has exited
StopTerminate(t) ==
  /\ CanRun(t)
  /\ threads[t].pc = "stop_tunnel"
  /\ IF ngrok_manager.process = NoProcess
     THEN /\ threads' = [threads EXCEPT ![t] = Return(@)]
          /\ UNCHANGED ngrok_host
     ELSE \/ /\ ngrok_host' = [ngrok_host EXCEPT
                                 !.signals = @ \cup {<<ngrok_manager.process, "SIGTERM">>}]
             /\ threads' = [threads EXCEPT ![t].pc = "stop_wait"]
          \/ /\ Alive(ngrok_manager, ngrok_host)
             /\ threads' = [threads EXCEPT ![t] = Return(@)]
             /\ UNCHANGED ngrok_host
  /\ UNCHANGED <<ngrok_manager, outsideTunnel>>

\* ngrok_manager.py:242-243
clear_state(manager) ==
  [manager EXCEPT !.process = NoProcess, !.tunnel_url = None]

\* ngrok_manager.py:235-247: wait(timeout=5); kill() and wait() when the
\* process has not exited in time; then the state is cleared. A handle
\* that another caller cleared meanwhile makes the call raise, which is logged
StopWait(t) ==
  /\ CanRun(t)
  /\ threads[t].pc = "stop_wait"
  /\ LET pid == ngrok_manager.process
     IN IF pid = NoProcess
        THEN UNCHANGED <<ngrok_manager, ngrok_host>>
        ELSE \/ /\ pid \notin ngrok_host.live \/ <<pid, "SIGTERM">> \in ngrok_host.signals
                /\ ngrok_host' = [ngrok_host EXCEPT !.live = @ \ {pid}]
                /\ ngrok_manager' = clear_state(ngrok_manager)
             \/ /\ pid \in ngrok_host.live
                /\ ngrok_host' = [ngrok_host EXCEPT
                                    !.live = @ \ {pid},
                                    !.signals = @ \cup {<<pid, "SIGKILL">>}]
                /\ ngrok_manager' = clear_state(ngrok_manager)
  /\ threads' = [threads EXCEPT ![t] = Return(@)]
  /\ UNCHANGED outsideTunnel

\* what GET /api/metrics comes to
MetricsAnswers == {"ok", "failed"}

\* a status that takes a handle for a running process
get_tunnel_status_by_handle(manager, host, metrics) ==
  [active |-> manager.process # NoProcess,
   url |-> IF manager.process # NoProcess THEN manager.tunnel_url ELSE None,
   metrics |-> IF manager.process # NoProcess /\ metrics = "ok" THEN "counts" ELSE "empty"]

\* ngrok_manager.py:170-205
get_tunnel_status(manager, host, metrics) ==
  LET active == manager.process # NoProcess /\ Alive(manager, host)
  IN [active |-> active,
      url |-> IF active THEN manager.tunnel_url ELSE None,
      metrics |-> IF active /\ metrics = "ok" THEN "counts" ELSE "empty"]

\* monitor_tunnel is called on a thread of its own once the server runs
MonitorStart ==
  /\ CanRun("monitor")
  /\ threads["monitor"].pc = "idle"
  /\ threads["main"].pc = "serving"
  /\ ngrok_manager.created
  /\ threads' = [threads EXCEPT !["monitor"].pc = "monitor"]
  /\ UNCHANGED <<ngrok_manager, ngrok_host, outsideTunnel>>

\* ngrok_manager.py:214: while self.process and self.process.poll() is None
monitor_goes_on(manager, host) ==
  manager.process # NoProcess /\ Alive(manager, host)

\* ngrok_manager.py:214 and 225: the loop condition, after the sleep
MonitorLoop ==
  /\ CanRun("monitor")
  /\ threads["monitor"].pc = "monitor"
  /\ threads' = [threads EXCEPT
                   !["monitor"].pc = IF monitor_goes_on(ngrok_manager, ngrok_host)
                                     THEN "monitor_status" ELSE "returned"]
  /\ UNCHANGED <<ngrok_manager, ngrok_host, outsideTunnel>>

\* ngrok_manager.py:215-223: the status, the callback, and the stop of the
\* restart when the status is not active
MonitorStatus ==
  /\ CanRun("monitor")
  /\ threads["monitor"].pc = "monitor_status"
  /\ \E metrics \in MetricsAnswers :
       LET st == get_tunnel_status(ngrok_manager, ngrok_host, metrics)
           seen == [threads["monitor"] EXCEPT !.status = st, !.callbacks = 1]
       IN threads' = [threads EXCEPT
                        !["monitor"] =
                          IF st.active THEN [seen EXCEPT !.pc = "monitor"]
                          ELSE Call(seen, "stop_tunnel", "monitor_restart")]
  /\ UNCHANGED <<ngrok_manager, ngrok_host, outsideTunnel>>

\* ngrok_manager.py:223: the start of the restart
MonitorRestart ==
  /\ CanRun("monitor")
  /\ threads["monitor"].pc = "monitor_restart"
  /\ threads' = [threads EXCEPT !["monitor"] = Call(@, "start_tunnel", "monitor")]
  /\ UNCHANGED <<ngrok_manager, ngrok_host, outsideTunnel>>

\* trigger_webhook.py:106-113 and 124-126: SIGTERM or SIGINT arrives
Signal ==
  /\ ~Exited
  /\ threads["shutdown"].pc = "idle"
  /\ threads' = [threads EXCEPT
                   !["shutdown"] = IF ngrok_manager.created
                                   THEN Call(@, "stop_tunnel", "shutdown_exit")
                                   ELSE [@ EXCEPT !.pc = "shutdown_exit"]]
  /\ UNCHANGED <<ngrok_manager, ngrok_host, outsideTunnel>>

\* trigger_webhook.py:115-121: sys.exit(0)
ShutdownExit ==
  /\ threads["shutdown"].pc = "shutdown_exit"
  /\ threads' = [threads EXCEPT !["shutdown"].pc = "exited"]
  /\ UNCHANGED <<ngrok_manager, ngrok_host, outsideTunnel>>

\* an ngrok process ends by itself
ProcessDies ==
  /\ ~Exited
  /\ \E pid \in ngrok_host.live : ngrok_host' = [ngrok_host EXCEPT !.live = @ \ {pid}]
  /\ UNCHANGED <<ngrok_manager, threads, outsideTunnel>>

TunnelNext ==
  \/ Setup
  \/ SetupDone
  \/ SetupFailed
  \/ \E t \in Threads : StartCheck(t)
  \/ \E t \in Threads : Cleanup(t)
  \/ \E t \in Threads : Spawn(t)
  \/ \E t \in Threads : Poll(t)
  \/ \E t \in Threads : StartNone(t)
  \/ \E t \in Threads : StopTerminate(t)
  \/ \E t \in Threads : StopWait(t)
  \/ MonitorStart
  \/ MonitorLoop
  \/ MonitorStatus
  \/ MonitorRestart
  \/ Signal
  \/ ShutdownExit
  \/ ProcessDies

SpecTunnel == TunnelInit /\ [][TunnelNext]_vars


\* the threads are scheduled: a caller that can take its next step takes it
\* in the end; signals and the death of a process are not bound to happen
SpecTunnelFair ==
  /\ SpecTunnel
  /\ WF_vars(MonitorStart)
  /\ WF_vars(MonitorLoop)
  /\ WF_vars(MonitorStatus)
  /\ WF_vars(MonitorRestart)
  /\ \A t \in Threads :
       /\ WF_vars(StartCheck(t))
       /\ WF_vars(Cleanup(t))
       /\ WF_vars(Spawn(t))
       /\ WF_vars(Poll(t))
       /\ WF_vars(StartNone(t))
       /\ WF_vars(StopTerminate(t))
       /\ WF_vars(StopWait(t))


\* ------------------------------------------------ a caller of the manager
\* ngrok_manager.py:22-37: a manager of a host with ngrok installed, made
\* with a token, in the hands of a caller that is about to use it
ClientInit ==
  /\ ServerInit
  /\ url_poll = NotRunning
  /\ github_hooks = NotRunning
  /\ host_ports = <<>>
  /\ startup = Serving
  /\ server_loop = NotRunning
  /\ validation = NotRunning
  /\ ngrok_manager = [created |-> TRUE, process |-> NoProcess, tunnel_url |-> None,
                      authtoken |-> "tok", requested |-> TRUE, ngrok_url |-> None]
  /\ ngrok_host \in [installed : {"installed"},
                     live : {{}, {ForeignNgrok}},
                     spawned : {0}, killalls : {0}, signals : {{}}]
  /\ threads = [t \in Threads |-> ThreadAt(IF t = "main" THEN "client" ELSE "idle")]

\* ngrok_manager.py:277-284: the manager is entered and left, again and
\* again: start_tunnel and stop_tunnel are called in any order
ClientCall ==
  /\ threads["main"].pc = "client"
  /\ \E method \in {"start_tunnel", "stop_tunnel"} :
       threads' = [threads EXCEPT !["main"] = Call(@, method, "client")]
  /\ UNCHANGED <<ngrok_manager, ngrok_host, outsideTunnel>>

ClientNext ==
  \/ ClientCall
  \/ \E t \in Threads : StartCheck(t)
  \/ \E t \in Threads : Cleanup(t)
  \/ \E t \in Threads : Spawn(t)
  \/ \E t \in Threads : Poll(t)
  \/ \E t \in Threads : StartNone(t)
  \/ \E t \in Threads : StopTerminate(t)
  \/ \E t \in Threads : StopWait(t)
  \/ ProcessDies

SpecClient == ClientInit /\ [][ClientNext]_vars

\* -------------------------------------------------------- URL discovery
outsideUrl == <<serverVars, portVars, tunnelVars, server_loop, validation, github_hooks>>

\* what self.tunnel_url can hold when get_tunnel_url is called: nothing, or
\* the URL that an earlier start of this manager stored and no stop cleared
StoredUrls == {None} \cup {PublicUrl(proto, 1) : proto \in {"http", "https"}}

\* the ngrok process whose tunnels the local API lists during the call
PolledPid == MaxSpawns

\* ngrok_manager.py:128-136: get_tunnel_url is called
UrlInit ==
  /\ ServerInit
  /\ host_ports = <<>>
  /\ startup = Serving
  /\ ngrok_manager = NotRunning
  /\ ngrok_host = NotRunning
  /\ threads = NotRunning
  /\ server_loop = NotRunning
  /\ validation = NotRunning
  /\ github_hooks = NotRunning
  /\ url_poll \in [pc : {"poll"}, tunnel_url : StoredUrls, attempt : {0},
                   tunnels : {<<>>}, returns : {"none"}]

\* ngrok_manager.py:138-168: one turn of the loop of get_tunnel_url: the
\* local API is asked, its answer scanned, and the call returns a URL,
\* goes on to the next attempt, returns None after the last one, or lets
\* an exception that is no RequestException through
get_tunnel_url ==
  /\ url_poll.pc = "poll"
  /\ \E answer \in ApiAnswers({PolledPid}) :
       LET a == poll_answer(answer, url_poll.tunnel_url)
           polled == [url_poll EXCEPT !.attempt = @ + 1,
                                      !.tunnels = answer.tunnels,
                                      !.tunnel_url = a.tunnel_url]
       IN url_poll' =
            CASE a.returns = "raise" -> [polled EXCEPT !.pc = "raised"]
              [] a.returns = "retry" /\ polled.attempt < UrlPolls -> polled
              [] a.returns = "retry" ->
                   [polled EXCEPT !.pc = "returned", !.returns = None]
              [] OTHER -> [polled EXCEPT !.pc = "returned", !.returns = a.returns]
  /\ UNCHANGED outsideUrl

SpecUrl == UrlInit /\ [][get_tunnel_url]_vars

\* ============================================================= webhooks
outsideHooks == <<serverVars, portVars, tunnelVars, server_loop, validation, url_poll>>

\* the webhooks the repository may hold
MaxHooks == 3

\* a URL, as the parts that the substring tests of find_adw_webhook tell
\* apart; the part is in the URL
UrlHas(url, part) == \E i \in DOMAIN url : url[i] = part

\* the URLs configure_webhook is called with: two tunnel URLs with the
\* endpoint of the server, and the URL of a host of one's own
WebhookUrls ==
  {<<"https://a.", "ngrok", ".io", "/gh-webhook">>,
   <<"https://b.", "ngrok", ".io", "/gh-webhook">>,
   <<"https://hooks.example.com", "/adw">>}

\* a webhook of the repository that another service registered
ForeignHook == [id |-> 1, name |-> "web", url |-> <<"https://ci.example.com", "/build">>]

\* the answers of gh to the calls of one configure_webhook: to the
\* listing, and to the POST or PATCH
GhAnswers == [list : {"ok", "fails"}, write : {"ok", "fails"}]

\* find_adw_webhook found nothing (None)
NoWebhook == [id |-> 0, name |-> "", url |-> <<>>]

\* no call of configure_webhook was made
NoCall == [webhook_url |-> <<>>, returns |-> FALSE, calls |-> <<>>]

\* webhook_manager.py:28-51: the hooks of the repository, or [] when gh
\* fails
list_webhooks(hooks, gh) == IF gh.list = "ok" THEN hooks ELSE <<>>

\* webhook_manager.py:70-71: the test that takes a hook for the service's
IsAdwWebhook(webhook) ==
  \/ UrlHas(webhook.url, "/gh-webhook")
  \/ UrlHas(webhook.url, "ngrok")
  \/ webhook.name = "ADW Webhook"

\* webhook_manager.py:54-74: the first hook of the listing that passes the
\* test
find_adw_webhook(hooks, gh) ==
  LET webhooks == list_webhooks(hooks, gh)
      found == {i \in DOMAIN webhooks : IsAdwWebhook(webhooks[i])}
  IN IF found = {} THEN NoWebhook
     ELSE webhooks[CHOOSE i \in found : \A j \in found : i <= j]

\* webhook_manager.py:77-126: POST of a hook named "web" with the URL; the
\* repository gains it when gh succeeds
create_webhook(hooks, webhook_url, gh) ==
  IF gh.write = "ok"
  THEN [hooks |-> Append(hooks, [id |-> Len(hooks) + 1, name |-> "web",
                                 url |-> webhook_url]),
        returns |-> TRUE]
  ELSE [hooks |-> hooks, returns |-> FALSE]

\* webhook_manager.py:129-177: PATCH of the URL of the hook with that id
update_webhook(hooks, webhook_id, webhook_url, gh) ==
  IF gh.write = "ok"
  THEN [hooks |-> [hooks EXCEPT ![webhook_id].url = webhook_url], returns |-> TRUE]
  ELSE [hooks |-> hooks, returns |-> FALSE]

\* webhook_manager.py:180-218: one call: the hooks it leaves, what it
\* returns, and the calls of gh it made
configure_webhook(hooks, webhook_url, repo, gh) ==
  LET existing == find_adw_webhook(hooks, gh)
      written(w, call) == [hooks |-> w.hooks, returns |-> w.returns,
                           calls |-> <<"list", call>>]
  IN IF repo = "raises"
     THEN [hooks |-> hooks, returns |-> FALSE, calls |-> <<>>]
     ELSE IF existing # NoWebhook
     THEN IF existing.url = webhook_url
          THEN [hooks |-> hooks, returns |-> TRUE, calls |-> <<"list">>]
          ELSE written(update_webhook(hooks, existing.id, webhook_url, gh), "update")
     ELSE written(create_webhook(hooks, webhook_url, gh), "create")

\* the repository as configure_webhook first meets it
HooksInit ==
  /\ ServerInit
  /\ host_ports = <<>>
  /\ startup = Serving
  /\ ngrok_manager = NotRunning
  /\ ngrok_host = NotRunning
  /\ threads = NotRunning
  /\ server_loop = NotRunning
  /\ validation = NotRunning
  /\ url_poll = NotRunning
  /\ github_hooks \in [hooks : {<<>>, <<ForeignHook>>}, last : {NoCall},
                       previous : {NoCall}]

\* webhook_manager.py:180-218: configure_webhook is called with a URL
Configure ==
  /\ \E webhook_url \in WebhookUrls, repo \in {"ok", "raises"}, gh \in GhAnswers :
       LET c == configure_webhook(github_hooks.hooks, webhook_url, repo, gh)
       IN /\ Len(c.hooks) <= MaxHooks
          /\ github_hooks' = [hooks |-> c.hooks,
                              last |-> [webhook_url |-> webhook_url,
                                        returns |-> c.returns, calls |-> c.calls],
                              previous |-> github_hooks.last]
  /\ UNCHANGED outsideHooks

SpecHooks == HooksInit /\ [][Configure]_vars

\* ================================================================ claims
\* a webhook request has just been answered
Answered == last.endpoint = "/gh-webhook"

LastStatus == last.outcome.response.status

\* the event of the answered request is an opened issue / a created comment
LastIsOpenedIssue ==
  /\ last.payload.json = "object"
  /\ last.event_type = "issues" /\ last.payload.action = "opened"

LastIsCreatedComment ==
  /\ last.payload.json = "object"
  /\ last.event_type = "issue_comment" /\ last.payload.action = "created"

\* the content of the answered event: the issue body of an opened issue, the
\* comment body of a created comment (JAbsent when the event has no such text)
LastContent ==
  IF LastIsOpenedIssue /\ last.payload.issue.type = "object"
  THEN last.payload.issue.body
  ELSE IF LastIsCreatedComment /\ last.payload.comment.type = "object"
  THEN last.payload.comment.body
  ELSE JAbsent

LastContentIsText == LastContent.type = "text"

\* the answered event carries an issue number the handler accepts
LastHasIssueNumber ==
  /\ last.payload.json = "object"
  /\ last.payload.issue.type = "object"
  /\ Truthy(Get(last.payload.issue.number, JNull))

\* C1: every webhook request ends with one structured response whose status is
\* accepted, ignored or error, whatever the payload and whichever step fails;
\* no exception leaves the handler.
C1_StructuredResponse ==
  Answered =>
    /\ last.outcome.raised = ""
    /\ LastStatus \in {"accepted", "ignored", "error"}

\* a request whose process spawn raised, answered with status error
C1_Witness ==
  /\ Answered
  /\ last.outcome.caught = "OSError"
  /\ last.outcome.calls[Len(last.outcome.calls)] = "subprocess.Popen"
  /\ LastStatus = "error"

\* C2: with a shared secret configured, a request whose signature is invalid
\* is never accepted, posts no notification and launches no job (the claim
\* also rules out its classification, which comes before both).
C2_InvalidSignatureRejected ==
  (Answered /\ ~validate_github_signature(last.payload, last.signature_header,
                                          WEBHOOK_SECRET))
    => /\ LastStatus # "accepted"
       /\ last.outcome.comments = <<>>
       /\ last.outcome.spawned = <<>>

\* C3: an event whose content (issue body of an opened issue, comment body of
\* a created comment) contains the bot marker launches no job and is not
\* accepted, also when the content names a workflow.
C3_BotMarkerNeverLaunches ==
  (Answered /\ LastContentIsText /\ Contains(LastContent.words, ADW_BOT_IDENTIFIER))
    => /\ LastStatus # "accepted"
       /\ last.outcome.spawned = <<>>

\* C4: the processed-event counter counts every received request exactly
\* once, whatever its outcome: it always equals the number of requests received.
C4_CountedOncePerRequest == processed_webhooks_count = received

\* two requests were received and counted, the second ended in an error
C4_Witness ==
  /\ Answered
  /\ LastStatus = "error"
  /\ received = 2
  /\ processed_webhooks_count = 2

\* C5: no increment is lost under interleaved handlers: whenever /status is
\* read, the count it reports is the number of requests answered plus the
\* number of handlers still suspended, so it is N after N completed requests.
C5_NoLostIncrement ==
  [][Status => last'.response.metrics.webhooks_processed = Responded + InFlight]_vars

\* /status is read after two handlers overlapped and both have completed
C5_Witness ==
  /\ last.endpoint = "/status"
  /\ InFlight = 0
  /\ Responded = 2
  /\ last.response.metrics.webhooks_processed = 2

\* the (event_type, action) pair of the answered event is one of the two
\* triggering pairs
LastPairTriggers == LastIsOpenedIssue \/ LastIsCreatedComment

\* C6 as claimed: every event whose pair is not one of the two triggering
\* pairs is answered with status ignored and launches no job.
C6_OtherPairsIgnored ==
  (Answered /\ last.payload.json = "object" /\ ~LastPairTriggers)
    => /\ LastStatus = "ignored"
       /\ last.outcome.spawned = <<>>

\* C6 as amended: an event whose pair is not one of the two triggering pairs
\* launches no job and posts no notification; it is answered with status
\* ignored, or with status error exactly when the payload's issue field is
\* not an object.
C6_OtherPairsNeverLaunch ==
  (Answered /\ last.payload.json = "object" /\ ~LastPairTriggers)
    => /\ last.outcome.spawned = <<>>
       /\ last.outcome.comments = <<>>
       /\ last.outcome.saved = <<>>
       /\ LastStatus \in {"ignored", "error"}
       /\ LastStatus = "error" <=> last.payload.issue.type = "null"

\* a closed issue whose body names a workflow, ignored
C6_Witness ==
  /\ Answered
  /\ last.event_type = "issues"
  /\ last.payload.json = "object"
  /\ last.payload.action = "closed"
  /\ last.payload.issue.type = "object"
  /\ last.payload.issue.body = JText(<<"adw_plan_build">>)
  /\ LastHasIssueNumber
  /\ LastStatus = "ignored"

\* the answered event is eligible: a triggering pair with an issue number
LastEligible == LastPairTriggers /\ LastHasIssueNumber

\* C7: an eligible event whose content names adw_build without an explicit
\* job identifier classifies to none: it is ignored, no notification is
\* posted, no state is saved and no job is launched.
C7_BuildRequiresIdentifier ==
  (/\ Answered /\ LastEligible /\ LastContentIsText
   /\ FirstWorkflow(LastContent.words) = "adw_build"
   /\ ~Contains(LastContent.words, JobIdToken))
    => /\ LastStatus = "ignored"
       /\ last.outcome.comments = <<>>
       /\ last.outcome.saved = <<>>
       /\ last.outcome.spawned = <<>>
       /\ ~Contains(last.outcome.calls, "make_issue_comment")
       /\ ~Contains(last.outcome.calls, "subprocess.Popen")

\* a created comment "adw_build" with no identifier, ignored
C7_Witness ==
  /\ Answered /\ LastEligible /\ LastIsCreatedComment
  /\ LastContent = JText(<<"adw_build">>)
  /\ LastStatus = "ignored"
  /\ Contains(last.outcome.calls, "extract_adw_info")

\* the identifier of the job the answered request launched
LaunchedId == last.outcome.spawned[1][5]

\* the workflow of the job the answered request launched
LaunchedWorkflow == last.outcome.spawned[1][3][2]

LastNamesFreshWorkflow ==
  /\ LastContentIsText
  /\ FirstWorkflow(LastContent.words) \notin {None, "adw_build"}
  /\ ~Contains(LastContent.words, ADW_BOT_IDENTIFIER)

\* the rule that fires for the answered event
LastRule == IF LastIsOpenedIssue THEN "New issue with" ELSE "Comment with"

\* C9 as claimed: an opened issue or created comment whose content names a
\* workflow that needs no job identifier and carries no bot marker is accepted
\* with that workflow and a job is launched.
C9_WorkflowAlwaysAccepted ==
  (Answered /\ LastPairTriggers /\ LastNamesFreshWorkflow)
    => /\ LastStatus = "accepted"
       /\ last.outcome.response.workflow = FirstWorkflow(LastContent.words)
       /\ last.outcome.spawned # <<>>

\* C9 as amended: such an event that carries a non-zero issue number is
\* accepted with that workflow, the reason names the rule that fired (new issue
\* or comment) and one job for that workflow is launched, unless the state
\* save, the logger setup or the process spawn raises: then the response is
\* error and no job is launched.
C9_WorkflowAccepted ==
  (Answered /\ LastEligible /\ LastNamesFreshWorkflow)
    => IF last.outcome.caught = ""
       THEN /\ LastStatus = "accepted"
            /\ last.outcome.response.workflow = FirstWorkflow(LastContent.words)
            /\ last.outcome.response.reason =
                 <<LastRule, FirstWorkflow(LastContent.words), "workflow">>
            /\ Len(last.outcome.spawned) = 1
            /\ LaunchedWorkflow = FirstWorkflow(LastContent.words)
       ELSE /\ LastStatus = "error"
            /\ last.outcome.caught = "OSError"
            /\ last.outcome.calls[Len(last.outcome.calls)]
                 \in {"ADWState.save", "setup_logger", "subprocess.Popen"}
            /\ last.outcome.spawned = <<>>

\* a created comment naming adw_plan_build, accepted with the comment rule
C9_Witness ==
  /\ Answered /\ LastIsCreatedComment /\ LastEligible
  /\ LastContent = JText(<<"ADW_notes", "adw_plan_build">>)
  /\ LastStatus = "accepted"
  /\ last.outcome.response.workflow = "adw_plan_build"
  /\ last.outcome.response.reason = <<"Comment with", "adw_plan_build", "workflow">>
  /\ LaunchedWorkflow = "adw_plan_build"

\* the number of times the answered request made the call
CallCount(name) ==
  Cardinality({i \in 1..Len(last.outcome.calls) : last.outcome.calls[i] = name})

\* C10: one request makes at most one workflow decision: it classifies at
\* most once, launches at most one job and posts at most one notification,
\* and a job is launched exactly when the response is accepted, for the one
\* workflow the response reports.
C10_AtMostOneDecision ==
  Answered =>
    /\ CallCount("extract_adw_info") <= 1
    /\ CallCount("subprocess.Popen") <= 1
    /\ Len(last.outcome.spawned) <= 1
    /\ Len(last.outcome.comments) <= 1
    /\ last.outcome.spawned # <<>> <=> LastStatus = "accepted"
    /\ LastStatus = "accepted" => LaunchedWorkflow = last.outcome.response.workflow

\* content naming two workflows launched exactly one job, for the first
C10_Witness ==
  /\ Answered /\ LastIsOpenedIssue
  /\ LastContent = JText(<<"adw_plan_build", "adw_build">>)
  /\ LastStatus = "accepted"
  /\ Len(last.outcome.spawned) = 1
  /\ LaunchedWorkflow = "adw_plan_build"


\* ------------------------------------------------------------------ C11
\* the first place of a call in the calls of the answered request
CallIndex(name) ==
  CHOOSE i \in 1..Len(last.outcome.calls) : last.outcome.calls[i] = name

Called(name) == Contains(last.outcome.calls, name)

\* the spawn of the answered request raised
LastSpawnRaised ==
  /\ Called("subprocess.Popen")
  /\ last.outcome.caught # ""

\* the script of the workflow handed to the spawn does not exist
LastScriptMissing ==
  /\ Called("subprocess.Popen")
  /\ last.outcome.caught = ""
  /\ ~last.outcome.script_found

\* C11: a launch failure, the workflow script missing or the spawn raising,
\* ends the request with status error and never accepted, with no job
\* reported in the response.
C11_LaunchFailureIsError ==
  (Answered /\ (LastScriptMissing \/ LastSpawnRaised)) =>
    /\ LastStatus = "error"
    /\ "adw_id" \notin DOMAIN last.outcome.response

\* ------------------------------------------------------------------ C12
\* the notification of the answered request was attempted and failed
LastNotifyFailed ==
  /\ Called("make_issue_comment")
  /\ last.outcome.comments = <<>>

\* C12: when a workflow is decided the notification is attempted before the
\* job is spawned, and a notification that fails does not stop the launch:
\* the spawn is still called, and unless the spawn itself raises the job is
\* spawned and the response is accepted.
C12_NotifyThenLaunch ==
  (Answered /\ Called("make_issue_comment")) =>
    /\ Called("subprocess.Popen")
    /\ CallIndex("make_issue_comment") < CallIndex("subprocess.Popen")
    /\ (LastNotifyFailed /\ last.outcome.caught = "") =>
         /\ LastStatus = "accepted"
         /\ Len(last.outcome.spawned) = 1

C12_Witness ==
  /\ Answered
  /\ LastNotifyFailed
  /\ LastStatus = "accepted"
  /\ Len(last.outcome.spawned) = 1

\* ------------------------------------------------------------------ C13
\* the body of the answered request is not JSON, is not a JSON object, or
\* has null where the issue object is expected
LastMalformed ==
  \/ last.payload.json # "object"
  \/ last.payload.issue.type = "null"

\* C13: a request whose body is not parseable JSON or lacks the expected
\* shape ends with status error, launches nothing, is counted, and no
\* exception leaves the handler.
C13_MalformedIsError ==
  (Answered /\ LastMalformed) =>
    /\ LastStatus = "error"
    /\ last.outcome.spawned = <<>>
    /\ last.outcome.comments = <<>>
    /\ last.outcome.raised = ""
    /\ processed_webhooks_count = received

C13_Witness ==
  /\ Answered
  /\ last.payload.json = "object"
  /\ last.payload.issue.type = "null"
  /\ LastStatus = "error"
  /\ processed_webhooks_count = 2

\* ------------------------------------------------------------------ C14
\* the answered event is a JSON object with its issue object and, for a
\* comment event, its comment object
LastWellFormed ==
  /\ last.payload.json = "object"
  /\ last.payload.issue.type = "object"
  /\ last.event_type = "issue_comment" => last.payload.comment.type = "object"

\* the content of the answered event names no workflow
LastNamesNoWorkflow ==
  LastContentIsText => FirstWorkflow(LastContent.words) = None

\* the answered event is a comment that carries the bot marker
LastIsMarkedComment ==
  /\ LastIsCreatedComment
  /\ LastContentIsText
  /\ Contains(LastContent.words, ADW_BOT_IDENTIFIER)

\* C14: a well-formed event that names no workflow, and a comment that
\* carries the bot marker, end with status ignored, never error.
C14_NoMatchIsIgnored ==
  (Answered /\ LastWellFormed /\ (LastNamesNoWorkflow \/ LastIsMarkedComment)) =>
    LastStatus = "ignored"

\* ------------------------------------------------------------------ C15
\* C15: the request is answered without waiting for the job: when the
\* handler returns after a spawn the job is still running and the response
\* is accepted, and nothing the job does afterwards, failing included,
\* changes the response of the request.
C15_FireAndForget ==
  [][/\ (last = NoResponse /\ last'.endpoint = "/gh-webhook"
          /\ last'.outcome.spawned # <<>>) =>
           /\ last'.outcome.job = "running"
           /\ last'.outcome.response.status = "accepted"
     /\ (last.endpoint = "/gh-webhook" /\ last'.endpoint = "/gh-webhook") =>
           last'.outcome.response = last.outcome.response]_vars

C15_Witness ==
  /\ Answered
  /\ last.outcome.job = "failed"
  /\ last.outcome.script_found
  /\ LastStatus = "accepted"

\* ------------------------------------------------------------------ C16
\* C16: requests in flight do not block each other: while a /health request
\* waits for its health check, a webhook request that arrives can be
\* received, and one that was received can be handled.
C16_HealthDoesNotBlock ==
  health_check = "running" =>
    /\ received < MaxRequests => ENABLED (\E e \in EventTypes : Receive(e))
    /\ InFlight > 0 => ENABLED (\E e \in EventTypes : Handle(e))

\* ------------------------------------------------------------------ C17
\* handle_port_conflict has returned or raised
Resolved ==
  /\ startup.entry = "handle_port_conflict"
  /\ startup.pc \in {"resolved", "serving", "raised", "exited"}

PortCalled(name) == Contains(startup.calls, name)

\* a free desired port is returned unchanged and nothing is signalled
FreePortKept ==
  startup.checked = "free" =>
    /\ startup.pc \in {"resolved", "serving"}
    /\ startup.PORT = startup.port
    /\ startup.signals = <<>>
    /\ ~PortCalled("kill_process_on_port")

\* the scan starts just above the desired port, and the port it finds is
\* the one returned
FallsBackAbove ==
  /\ startup.start_port = startup.port + 1
  /\ startup.found # NoPort =>
       /\ startup.pc \in {"resolved", "serving"}
       /\ startup.PORT = startup.found
       /\ startup.PORT > startup.port

\* C17 as stated: a free desired port is returned unchanged with no process
\* signalled; otherwise reclaim is attempted, and if reclaim fails the scan
\* from just above the desired port gives the port returned.
C17_OccupiedIsReclaimed ==
  Resolved =>
    /\ FreePortKept
    /\ startup.checked = "in_use" =>
         /\ PortCalled("kill_process_on_port")
         /\ startup.killed = "False" =>
              (PortCalled("find_available_port") /\ FallsBackAbove)

\* C17, amended: a free desired port is returned unchanged with no process
\* signalled; otherwise reclaim is attempted exactly when the owner of the
\* port is identified, a reclaimed port is returned unchanged, and when no
\* owner is identified or reclaim fails, permission denied included, the
\* scan from just above the desired port gives the higher port returned.
C17_ResolvePort ==
  Resolved =>
    /\ FreePortKept
    /\ startup.checked = "in_use" =>
         /\ PortCalled("kill_process_on_port") <=> startup.info_pid # NoPid
         /\ PortCalled("find_available_port") <=>
              (startup.info_pid = NoPid \/ startup.killed = "False")
         /\ PortCalled("find_available_port") => FallsBackAbove
         /\ startup.killed = "True" => startup.PORT = startup.port

C17_Witness ==
  /\ Resolved
  /\ startup.checked = "in_use"
  /\ startup.killed = "False"
  /\ startup.signals # <<>>
  /\ startup.signals[Len(startup.signals)].outcome = "PermissionError"
  /\ startup.PORT > startup.port

\* ------------------------------------------------------------------ C18
\* C18: when the desired port is occupied, is not reclaimed and the scan
\* finds no port, handle_port_conflict raises, the process exits with a
\* non-zero status and the server is never started.
C18_NoPortIsFatal ==
  [][/\ (startup.entry = "handle_port_conflict" /\ startup.pc = "find"
          /\ startup'.pc # "find" /\ startup'.found = NoPort) =>
           startup'.pc = "raised"
     /\ (startup.pc = "raised" /\ startup' # startup) =>
           (startup'.pc = "exited" /\ startup'.exit_code = 1)
     /\ startup.pc = "exited" => startup' = startup]_vars

C18_Witness ==
  /\ startup.pc = "exited"
  /\ startup.exit_code = 1
  /\ startup.checked = "in_use"
  /\ startup.killed = "False"
  /\ startup.found = NoPort

\* ------------------------------------------------------------------ C19
\* find_available_port has returned
FindReturned == PortCalled("find_available_port") /\ startup.pc # "find"

ScanRange == startup.start_port..(startup.end_port - 1)

\* C19: find_available_port never returns a port outside
\* [start_port, end_port); the port it returns was reported not in use and
\* was bound during the call; it returns None exactly when no port of the
\* range passed both checks.
C19_FindInRange ==
  FindReturned =>
    /\ startup.found # NoPort =>
         /\ startup.found \in ScanRange
         /\ startup.found \in startup.probed \cap startup.bound
         /\ ~is_port_in_use(host_ports, startup.found)
         /\ can_bind(host_ports, startup.found)
    /\ startup.found = NoPort <=> ScanRange \cap startup.probed \cap startup.bound = {}
    /\ startup.found = NoPort =>
         \A p \in ScanRange \ {DEFAULT_PORT} : ~can_bind(host_ports, p)

C19_Witness ==
  /\ FindReturned
  /\ startup.found # NoPort
  /\ startup.found > startup.start_port
  /\ startup.probed \ startup.bound # {}

\* ------------------------------------------------------------------ C20
\* C20: kill_process_on_port returns True as soon as the port is seen free
\* after a signal, takes a lookup that finds no owner for success, returns
\* False once max_retries attempts are used up without the port coming
\* free, and sends at most max_retries signals.
C20_ReclaimBounded ==
  /\ Len(startup.signals) <= startup.max_retries
  /\ \A i \in 1..(Len(startup.probes) - 1) : startup.probes[i]
  /\ startup.killed # "none" =>
       /\ startup.no_owner => startup.killed = "True"
       /\ (startup.probes # <<>> /\ ~startup.probes[Len(startup.probes)]) =>
            startup.killed = "True"
       /\ startup.attempt >= startup.max_retries => startup.killed = "False"

C20_Witness ==
  /\ startup.killed = "True"
  /\ startup.probes = <<TRUE, FALSE>>
  /\ Len(startup.signals) = 2

\* ------------------------------------------------------------------ C29
\* C29: /health always answers: a health check that times out or cannot be
\* run gives status unhealthy, otherwise the status is healthy exactly when
\* the check exited with code 0, and the status is healthy or unhealthy.
C29_HealthAlwaysAnswers ==
  /\ health_check = "running" => ENABLED HealthFinish
  /\ last.endpoint = "/health" =>
       /\ last.response.status \in {"healthy", "unhealthy"}
       /\ last.run.kind \in {"TimeoutExpired", "OSError"} =>
            last.response.status = "unhealthy"
       /\ last.run.kind = "completed" =>
            (last.response.status = "healthy" <=> last.run.returncode = 0)

C29_Witness ==
  /\ last.endpoint = "/health"
  /\ last.run.kind = "TimeoutExpired"
  /\ last.response.status = "unhealthy"

\* ------------------------------------------------------------------ C30
\* two bodies of one length that differ in exactly one byte
OneByteApart(a, b) ==
  /\ Len(a) = Len(b)
  /\ \E i \in 1..Len(a) : a[i] # b[i] /\ \A j \in 1..Len(a) : j # i => a[j] = b[j]

\* two headers that differ in one byte: of the prefix, or of the digest
HeaderOneByteApart(g, h) ==
  /\ g.present /\ h.present
  /\ \/ g.hex = h.hex /\ {g.prefix, h.prefix} = {"sha256=", "sha257="}
     \/ g.prefix = h.prefix /\ \E kind \in CharChanges : h.hex = ChangedHex(kind, g.hex)

\* no single-byte change of the body or of the header of the validated
\* triple is accepted
NoChangeAccepted ==
  /\ \A b \in RawBodies :
       OneByteApart(validation.payload_body, b) =>
         signature_check(b, validation.signature_header, validation.secret) # "True"
  /\ \A h \in ValidationHeaders :
       HeaderOneByteApart(validation.signature_header, h) =>
         signature_check(validation.payload_body, h, validation.secret) # "True"

\* the digest of the header is the HMAC of the body under the secret with
\* the algorithm the header declares
DeclaredDigestMatches ==
  /\ validation.signature_header.present
  /\ \/ /\ validation.signature_header.prefix = "sha256="
        /\ validation.signature_header.hex =
             hmac_sha256(validation.secret, validation.payload_body)
     \/ /\ validation.signature_header.prefix = "sha1="
        /\ validation.signature_header.hex =
             hmac_sha1(validation.secret, validation.payload_body)

ServerRunCount ==
  Len(server_loop.log) + (IF server_loop.pc = "running" THEN 1 ELSE 0)

\* C28: a crash of the server leads to at most max_retries runs in all, with
\* the same delay before each restart; when the last run crashes the process
\* exits with a non-zero status, and a run that stops normally ends the loop
\* with no further run.
C28_BoundedRestarts ==
  /\ ServerRunCount <= server_loop.max_retries
  /\ Len(server_loop.sleeps) <= Len(server_loop.log)
  /\ server_loop.sleeps # <<>> => Len(server_loop.sleeps) < server_loop.max_retries
  /\ \A i \in 1..Len(server_loop.sleeps) : server_loop.sleeps[i] = server_loop.retry_delay
  /\ \A i \in 1..Len(server_loop.log) :
       /\ server_loop.log[i] = "stopped" =>
            (i = Len(server_loop.log) /\ server_loop.pc = "returned"
             /\ server_loop.exit_code = 0)
       /\ (server_loop.log[i] = "crashed" /\ i = server_loop.max_retries) =>
            (server_loop.pc = "exited" /\ server_loop.exit_code = 1)
       /\ (server_loop.log[i] = "crashed" /\ i < server_loop.max_retries
           /\ i = Len(server_loop.log)) =>
            (server_loop.pc \in {"resolve", "loop", "running"}
             /\ Len(server_loop.sleeps) = i)

C28_Witness ==
  /\ server_loop.pc = "exited"
  /\ server_loop.exit_code = 1
  /\ server_loop.log = <<"crashed", "crashed", "crashed">>
  /\ Len(server_loop.sleeps) = 2


\* ---------------------------------------------------------------- C21
\* a step of start_tunnel by caller t whose run of `ngrok version` found no
\* binary, or whose manager has no token
C21_Unavailable(t) ==
  /\ threads[t].pc = "start_tunnel"
  /\ threads'[t] # threads[t]
  /\ threads'[t].version = "absent" \/ ~is_configured(ngrok_manager)

SpawnedLive == ngrok_host.live \cap (1..ngrok_host.spawned)

\* C22: a start that found no public URL within its UrlPolls polls stops
\* the tunnel and returns None: when it is about to return, no process it
\* spawned runs and the manager holds no process handle
C22_NoUrlLeavesNoProcess ==
  \A t \in Threads :
    (threads[t].pc = "start_none" /\ threads[t].polls = UrlPolls) =>
      /\ ngrok_manager.process = NoProcess
      /\ SpawnedLive = {}

\* ---------------------------------------------------------------- C23
\* caller t returns from stop_tunnel in this step
C23_StopReturns(t) ==
  /\ threads[t].pc \in {"stop_tunnel", "stop_wait"}
  /\ threads'[t].pc \notin {"stop_tunnel", "stop_wait"}

\* C23: when stop_tunnel returns, the process handle and the public URL are
\* unset, also when terminating or waiting raised; the process is killed
\* only after it was asked to terminate and did not exit within the wait
C23_StopAlwaysClears ==
  [][/\ \A t \in Threads :
          C23_StopReturns(t) =>
            /\ ngrok_manager'.process = NoProcess
            /\ ngrok_manager'.tunnel_url = None
     /\ \A pid \in 1..MaxSpawns :
          (<<pid, "SIGKILL">> \in ngrok_host'.signals
             /\ <<pid, "SIGKILL">> \notin ngrok_host.signals) =>
            /\ <<pid, "SIGTERM">> \in ngrok_host.signals
            /\ pid \in ngrok_host.live]_vars

\* ---------------------------------------------------------------- C24
\* caller t is inside start_tunnel or stop_tunnel, or inside a restart
InStartOrStop(t) ==
  \/ threads[t].stack # <<>>
  \/ threads[t].pc = "monitor_restart"

\* C24: start, stop and the restart of the monitor exclude each other: at
\* most one caller is inside a start or stop sequence, and at most one
\* spawned tunnel process runs
C24_MutuallyExclusive ==
  /\ Cardinality({t \in Threads : InStartOrStop(t)}) <= 1
  /\ Cardinality(SpawnedLive) <= 1

\* ---------------------------------------------------------------- C25
\* the monitor runs, nobody shuts down, and the process of the handle has died
C25_DeadTunnel ==
  /\ threads["monitor"].pc \in {"monitor", "monitor_status"}
  /\ threads["shutdown"].pc = "idle"
  /\ ngrok_manager.process # NoProcess
  /\ ~Alive(ngrok_manager, ngrok_host)

\* the monitor has stopped the tunnel and starts it again
C25_RestartAttempt ==
  threads["monitor"].pc \in {"monitor_restart", "start_tunnel"}

\* C25: while the monitor runs, a tunnel process that died is followed in
\* the end by a restart attempt of the monitor, unless a shutdown begins
C25_DeadTunnelIsRestarted ==
  C25_DeadTunnel ~> (C25_RestartAttempt \/ threads["shutdown"].pc # "idle")


\* ---------------------------------------------------------------- C26
\* the manager holds a handle of a process that has not exited
HoldsRunningProcess ==
  ngrok_manager.process # NoProcess /\ Alive(ngrok_manager, ngrok_host)

\* C26: the status that get_tunnel_status reports has active = true exactly
\* when the manager holds a handle of a process that has not exited; a
\* metrics fetch that fails leaves the metrics empty, does not change
\* active, and raises nothing
C26_ActiveIffRunning ==
  [][(threads["monitor"].pc = "monitor_status"
        /\ threads'["monitor"] # threads["monitor"]) =>
       /\ threads'["monitor"].status.active <=> HoldsRunningProcess
       /\ threads'["monitor"].pc # "raised"
       /\ LET failed == get_tunnel_status(ngrok_manager, ngrok_host, "failed")
              ok == get_tunnel_status(ngrok_manager, ngrok_host, "ok")
          IN /\ failed.metrics = "empty"
             /\ failed.active = ok.active
             /\ threads'["monitor"].status \in {failed, ok}]_vars

\* the monitor got an inactive status from a manager that holds the handle
\* of a process that has exited
C26_Witness ==
  /\ threads["monitor"].pc = "stop_tunnel"
  /\ threads["monitor"].stack = <<"monitor_restart">>
  /\ threads["monitor"].status.active = FALSE
  /\ threads["monitor"].status.metrics = "empty"
  /\ ngrok_manager.process # NoProcess
  /\ ~Alive(ngrok_manager, ngrok_host)

\* ---------------------------------------------------------------- C27
\* the start-up code got no tunnel: no binary, no token, or no URL
TunnelUnavailable ==
  \/ threads["main"].version # "installed"
  \/ ~is_configured(ngrok_manager)
  \/ threads["main"].result \in {"none", None}

\* C27: a tunnel that is not available never ends the start-up: the
\* start-up code never ends with an error of the tunnel set-up, and when
\* it serves without a tunnel it has no public URL (local-only mode)
C27_TunnelNeverFatal ==
  /\ threads["main"].pc # "raised"
  /\ (threads["main"].pc = "serving" /\ TunnelUnavailable) =>
       ngrok_manager.ngrok_url = None

\* the set-up raised, and the start-up code serves without a public URL
C27_Witness ==
  /\ threads["main"].pc = "serving"
  /\ threads["main"].version = "OSError"
  /\ ngrok_manager.created
  /\ ngrok_manager.ngrok_url = None


\* ------------------------------------------------------------------ C31
\* the header is missing or empty, the secret is missing or empty, or the
\* header does not start with the prefix that declares the hash algorithm
C31_Unusable ==
  \/ ~validation.signature_header.present
  \/ validation.signature_header = EmptyHeader
  \/ validation.secret = ""
  \/ validation.signature_header.prefix # "sha256="

\* C31: validation fails closed: with a missing or empty header, a missing
\* or empty secret, or a header without the "sha256=" prefix, the call
\* returns false for every body and neither computes nor compares a digest
C31_FailsClosed ==
  (validation.pc = "returned" /\ C31_Unusable) =>
    /\ validation.result = "False"
    /\ validation.digest = "not computed"

\* a header that declares SHA-1 and carries the HMAC-SHA1 of the body under
\* the secret has been refused without a digest being computed
C31_Witness ==
  /\ validation.pc = "returned"
  /\ validation.secret = WEBHOOK_SECRET
  /\ validation.signature_header.prefix = "sha1="
  /\ validation.signature_header.hex =
       hmac_sha1(validation.secret, validation.payload_body)
  /\ validation.result = "False"
  /\ validation.digest = "not computed"


\* ------------------------------------------------------------------ C32
\* the payload of the answered request can be classified: it is an object
\* whose issue, if any, is an object
LastClassifiable ==
  /\ Answered
  /\ last.payload.json = "object"
  /\ Get(last.payload.issue, IssueObj(JAbsent, JAbsent)).type = "object"

\* the classification of the answered request, made again with the
\* temporary identifier temp_id: the workflow decided and the identifier
\* found in the content
Reclassified(temp_id) ==
  LET issue == Get(last.payload.issue, IssueObj(JAbsent, JAbsent))
      c == classify(last.event_type, last.payload.action, Get(issue.number, JNull),
                    issue, last.payload, temp_id, <<>>)
  IN [raised |-> c.raised, workflow |-> c.workflow,
      provided_adw_id |-> c.provided_adw_id]

ReclaimReturned == startup.killed # "none"

\* the attempts of the reclaim that failed and were followed by the next
\* one: the signal raised an error that is not caught by name, or the port
\* was still in use after the signal
FailedAttempts ==
  Cardinality({i \in 1..Len(startup.signals) : startup.signals[i].outcome = "OSError"})
  + Cardinality({i \in 1..Len(startup.probes) : startup.probes[i]})

LastSignalDenied ==
  /\ startup.signals # <<>>
  /\ startup.signals[Len(startup.signals)].outcome = "PermissionError"

\* C33 as stated: every failure of a reclaim attempt, permission denied
\* included, is followed by the next attempt, and the reclaim returns
\* false only after max_retries attempts
C33_EveryFailureRetried ==
  /\ startup.attempt <= startup.max_retries
  /\ (ReclaimReturned /\ startup.killed = "False") =>
       startup.attempt >= startup.max_retries

\* C33, amended: an attempt whose signal raises an error other than
\* permission denied and no such process, or that leaves the port in use,
\* is followed by the next attempt, and the reclaim returns false after
\* max_retries such attempts; a signal refused with permission denied is
\* not retried: the reclaim returns false at once
C33_FailuresRetriedButDenied ==
  /\ startup.attempt <= startup.max_retries
  /\ startup.pc \in {"kill_lookup", "kill_signal"} => startup.attempt = FailedAttempts
  /\ (ReclaimReturned /\ startup.killed = "False") =>
       (startup.attempt >= startup.max_retries \/ LastSignalDenied)
  /\ \A i \in 1..Len(startup.signals) :
       startup.signals[i].outcome = "PermissionError" =>
         /\ i = Len(startup.signals)
         /\ startup.killed = "False"

\* the first signal of a reclaim with attempts left was refused, and the
\* reclaim has returned false
C33_Witness ==
  /\ startup.killed = "False"
  /\ startup.max_retries = MaxRetries
  /\ startup.attempt = 0
  /\ Len(startup.signals) = 1
  /\ LastSignalDenied

\* ------------------------------------------------------------------ C34
\* C34: the first attempt of a reclaim sends SIGTERM unless force is set,
\* every later attempt sends SIGKILL, with force set every attempt sends
\* SIGKILL, and no SIGTERM follows a SIGKILL within one call
C34_SignalEscalation ==
  /\ \A i \in 1..Len(startup.signals) :
       startup.signals[i].signal =
         (IF startup.force \/ i > 1 THEN "SIGKILL" ELSE "SIGTERM")
  /\ \A i, j \in 1..Len(startup.signals) :
       (i < j /\ startup.signals[i].signal = "SIGKILL") =>
         startup.signals[j].signal = "SIGKILL"

\* a reclaim without force has sent SIGTERM, found the port still in use,
\* and sent SIGKILL twice
C34_Witness ==
  /\ ~startup.force
  /\ Len(startup.signals) = 3
  /\ startup.signals[1].signal = "SIGTERM"
  /\ startup.signals[2].signal = "SIGKILL"
  /\ startup.signals[3].signal = "SIGKILL"
  /\ startup.probes = <<TRUE, TRUE>>

\* ------------------------------------------------------------------ C37
\* C37: when handle_port_conflict returns the desired port after it found
\* the port in use, the last thing the reclaim did was a probe that saw the
\* port not in use, made after the last signal was delivered
C37_ReclaimedPortWasProbed ==
  (/\ startup.entry = "handle_port_conflict"
   /\ startup.pc = "resolved"
   /\ startup.checked = "in_use"
   /\ startup.PORT = startup.port) =>
    /\ startup.signals # <<>>
    /\ startup.signals[Len(startup.signals)].outcome = "delivered"
    /\ startup.probes # <<>>
    /\ ~startup.probes[Len(startup.probes)]
    /\ ~startup.no_owner


\* ------------------------------------------------------------------ C38
\* the public URLs the local API can report now: those of the tunnels of
\* the ngrok processes that run
ReportableUrls ==
  {PublicUrl(proto, pid) : proto \in {"http", "https"}, pid \in ngrok_host.live}

\* caller t returns from get_tunnel_url with a URL in this step, and
\* start_tunnel stores and returns it
C38_UrlReturned(t) ==
  /\ threads[t].pc = "poll"
  /\ threads'[t].pc \notin {"poll", "stop_tunnel"}

\* C38: the URL that a start returns and stores is one that the local API
\* reported during the call, after any sequence of start, stop and
\* restart: it is never a URL left over from an earlier tunnel
C38_NoLeftOverUrl ==
  [][\A t \in Threads :
       C38_UrlReturned(t) =>
         /\ threads'[t].result \in ReportableUrls
         /\ ngrok_manager'.tunnel_url = threads'[t].result]_vars


\* ------------------------------------------------------------------ C35
\* the public URLs of a scheme that the answer of the last poll lists
Offered(proto) ==
  {url_poll.tunnels[i].public_url :
     i \in {j \in DOMAIN url_poll.tunnels : url_poll.tunnels[j].proto = proto}}

\* C35: when the poll that get_tunnel_url returns from offers an https and
\* a plain http public URL, in whatever order, the URL returned is an https
\* URL of that poll; a plain URL is returned only when that poll offers no
\* https URL
C35_PrefersHttps ==
  (url_poll.pc = "returned" /\ url_poll.returns # None) =>
    /\ (Offered("https") # {} /\ Offered("http") # {}) =>
         url_poll.returns \in Offered("https")
    /\ ~IsHttps(url_poll.returns) => Offered("https") = {}

\* the poll lists the plain URL before the https URL and the https URL is
\* returned
C35_Witness ==
  /\ url_poll.pc = "returned"
  /\ url_poll.tunnels = <<TunnelEntry("http", PolledPid), TunnelEntry("https", PolledPid)>>
  /\ url_poll.returns = PublicUrl("https", PolledPid)


\* ------------------------------------------------------------------ C39
\* the call made last
GhCalled(call) ==
  \E i \in DOMAIN github_hooks.last.calls : github_hooks.last.calls[i] = call

\* the last call is a second configure_webhook(url) after one that
\* succeeded
SecondConfigure ==
  /\ github_hooks.previous.returns
  /\ github_hooks.last.webhook_url = github_hooks.previous.webhook_url

\* the hooks of the repository that carry the URL configured last or that
\* find_adw_webhook takes for the service's
ServiceHooks ==
  {i \in DOMAIN github_hooks.hooks :
     \/ github_hooks.hooks[i].url = github_hooks.last.webhook_url
     \/ IsAdwWebhook(github_hooks.hooks[i])}

\* C39: configure_webhook is idempotent: after a successful
\* configure_webhook(url), a second configure_webhook(url) makes no create
\* and no update call and the repository has exactly one webhook of the
\* service; and no call makes both a create and an update call
C39_ConfigureIdempotent ==
  /\ SecondConfigure =>
       /\ ~GhCalled("create")
       /\ ~GhCalled("update")
       /\ Cardinality(ServiceHooks) = 1
  /\ ~(GhCalled("create") /\ GhCalled("update"))


\* ------------------------------------------------------------------ C36
\* C36: a request answered with status ignored had no effect but the
\* count: no state file was saved, no notification posted and no process
\* spawned, and none of the three calls was made
C36_IgnoredHasNoSideEffect ==
  (Answered /\ LastStatus = "ignored") =>
    /\ last.outcome.saved = <<>>
    /\ last.outcome.comments = <<>>
    /\ last.outcome.spawned = <<>>
    /\ last.outcome.job = "none"
    /\ ~Called("ADWState.save")
    /\ ~Called("make_issue_comment")
    /\ ~Called("subprocess.Popen")

\* a created comment that names a workflow and carries the bot marker was
\* ignored, the request counted
C36_Witness ==
  /\ Answered /\ LastEligible /\ LastIsMarkedComment
  /\ Contains(LastContent.words, "adw_plan_build")
  /\ LastStatus = "ignored"
  /\ last.outcome.saved = <<>>
  /\ processed_webhooks_count > 0

\* ------------------------------------------------------------------ C40
\* the payload of the answered request gives an issue number
LastNumberGiven ==
  /\ last.payload.json = "object"
  /\ last.payload.issue.type = "object"
  /\ last.payload.issue.number.type = "int"

\* the answered event is of a triggering pair and its content names a
\* workflow
LastNamesWorkflow ==
  /\ LastPairTriggers /\ LastWellFormed /\ LastContentIsText
  /\ FirstWorkflow(LastContent.words) # None

\* C40: an accepted response carries the issue number of the payload, which
\* is not null; an event of a triggering pair that names a workflow and
\* whose payload gives no issue number is ignored and launches nothing
C40_AcceptedHasIssueNumber ==
  /\ (Answered /\ LastStatus = "accepted") =>
       /\ LastNumberGiven
       /\ last.outcome.response.issue = last.payload.issue.number.val
  /\ (Answered /\ LastNamesWorkflow /\ ~LastNumberGiven) =>
       /\ LastStatus = "ignored"
       /\ last.outcome.spawned = <<>>
       /\ ~Called("subprocess.Popen")

\* an opened issue without a number whose body names a workflow, ignored
C40_Witness ==
  /\ Answered /\ LastIsOpenedIssue /\ LastNamesWorkflow
  /\ last.payload.issue.number = JAbsent
  /\ LastContent = JText(<<"adw_plan_build">>)
  /\ LastStatus = "ignored"
  /\ last.outcome.spawned = <<>>

====
